---- MODULE Spec2Model ----
(***************************************************************************)
(* Task orchestration plane of claude-code-sandbox-bot.                    *)
(*                                                                         *)
(*   src/src/task/concurrency.py      ConcurrencyController                *)
(*   src/src/task/manager.py          TaskManagerImpl                      *)
(*   src/src/slack/question_handler.py QuestionHandler                     *)
(*   src/src/redis/client.py          AsyncRedisClientImpl                 *)
(*                                                                         *)
(* The orchestrator is one asyncio event loop: a coroutine runs without    *)
(* interruption from one suspending await to the next.  Every action below *)
(* is one such run.  asyncio.Lock.acquire on a free lock and               *)
(* asyncio.Queue.put on an unbounded queue return without suspending, so   *)
(* the controller calls belong to the run that makes them.                 *)
(***************************************************************************)
EXTENDS Integers, Sequences, FiniteSets, TLC

\* ------------------------------------------------------------ bounds ----

\* Largest max_concurrent the controller is constructed with.
MaxCapacity == 2

\* Longest wait queue explored in the controller-only specification.
MaxQueue == 3

\* Number of enqueue calls explored in the controller-only specification.
MaxEnqueues == 3

\* Number of publish actions explored in the client-only specification.
MaxPublishOps == 3

\* Number of times the server changes between reachable and unreachable.
MaxToggles == 3

\* Number of disconnect calls explored.
MaxDisconnects == 1

\* Number of failed pings explored in one run of _reconnect.
MaxSleeps == 7

\* Number of messages the server delivers to one subscription.
MaxMessages == 3

\* ------------------------------------------------------------- values ----

Tasks == {"t1", "t2", "t3"}

NoTask == "none"

NoReturn == [op |-> "none", task |-> NoTask, value |-> "none", log |-> <<>>]

Keys == {"k1", "k2", "k3"}

\* Question texts published by the sandbox and answer texts from the chat.
Questions == {"q1", "q2"}

Answers == {"yes", "no"}

NoQuestion == "none"

\* TaskStatus values (src/src/task/models.py); Absent: no task:{id} record.
Absent == "absent"

NonTerminal == {"pending", "starting", "cloning", "running", "waiting_user"}

TERMINAL_STATES == {"completed", "failed", "cancelled"}

TaskStatus == NonTerminal \cup TERMINAL_STATES

\* Tasks are named in the order their submit calls are made.
TaskOrder == <<"t1", "t2", "t3">>

TaskIndex(t) == CHOOSE i \in 1..Len(TaskOrder) : TaskOrder[i] = t

\* The idempotency keys the submitted tasks carry: every way the three tasks
\* can share keys, from one key for all to the intake layer's default of a
\* key per task (idempotency_key = id).
KeyNames == <<"k1", "k2", "k3">>

KeyPatterns == {<<1, 1, 1>>, <<1, 1, 2>>, <<1, 2, 1>>, <<1, 2, 2>>, <<1, 2, 3>>}

KeyAssignments ==
    {[t \in Tasks |-> KeyNames[p[TaskIndex(t)]]] : p \in KeyPatterns}

OwnKey == [t \in Tasks |-> KeyNames[TaskIndex(t)]]

VARIABLES
    max_concurrent,   \* ConcurrencyController._max_concurrent
    running_count,    \* ConcurrencyController._running_count
    queue,            \* ConcurrencyController._queue (FIFO of task ids)
    enqueued,         \* history: tasks in the order enqueue() was called
    handed_out        \* history: tasks in the order release() returned them

ccVars == <<max_concurrent, running_count, queue, enqueued, handed_out>>

VARIABLES
    idempotency_key,  \* Task.idempotency_key of each task object
    faults,           \* whether key-value store / chat calls may raise
    serial_submit,    \* whether the caller awaits each submit before the next
    has_controller    \* TaskManagerImpl._concurrency_controller is not None

envVars == <<idempotency_key, faults, serial_submit, has_controller>>

VARIABLES
    store_task,       \* key-value store: status in the task:{id} record
    store_idem        \* key-value store: idempotency:{key} -> task id

storeVars == <<store_task, store_idem>>

VARIABLES
    spc,              \* submit(task): the await the call is suspended at
    first_submitted,  \* history: first task submit was called with, per key
    started,          \* tasks reported to the caller as starting, not completed
    cpc,              \* on_task_complete(task_id): position
    cnext,            \* on_task_complete: next_task
    kpc               \* cancel(task_id): position

tmVars == <<spc, first_submitted, started, cpc, cnext, kpc>>

VARIABLES
    qpc,               \* on_question(task): the await the callback is at
    pending_questions, \* QuestionHandler._pending_questions
    answer_futures,    \* QuestionHandler._answer_futures
    answer,            \* on_question: the local `answer`
    accepted,          \* history: submit_answer calls that returned True
                       \* for the question now registered
    qlog               \* history: what the current on_question call has
                       \* read, written, posted and published, in order

qhVars == <<qpc, pending_questions, answer_futures, answer, accepted, qlog>>

VARIABLES
    last_return       \* the TaskManager, QuestionHandler or publish call that
                      \* returned in the step leading here: operation,
                      \* argument, result (NoReturn: none did)

VARIABLES
    server_up,        \* environment: the server answers ping and publish
    toggles,          \* environment: changes of server_up so far
    connected,        \* AsyncRedisClientImpl._connected
    local_queue,      \* AsyncRedisClientImpl._local_queue, oldest first
    reconnect_task,   \* AsyncRedisClientImpl._reconnect_task
    rpc,              \* _reconnect: the await the task is at
    backoff,          \* _reconnect: the local `backoff` while the loop
                      \* still reads it, else 0
    sleeps,           \* history: sleeps started by the running _reconnect
    flushing,         \* _flush_local_queue: the message popped and in flight
    dpc,              \* disconnect: the await the call is at
    disconnects,      \* history: number of disconnect calls made
    received,         \* history: summary of the messages the server
                      \* received in order (see Deliver)
    published,        \* history: number of publish calls made
    publish_ops,      \* history: number of publish actions taken
    ever_connected,   \* history: a ping of connect or _reconnect has succeeded
    outage_only       \* history: every publish so far was made before the
                      \* first successful ping

rdVars == <<server_up, toggles, connected, local_queue, reconnect_task, rpc, backoff, sleeps,
            flushing, dpc, disconnects, received, published, publish_ops, ever_connected,
            outage_only>>

VARIABLES
    sandboxes,        \* AzureSandboxManagerImpl._sandboxes: status by task id
    aci_client,       \* AzureSandboxManagerImpl._client is not None
    groups,           \* the platform: names of the container groups it holds
    id_prefix         \* the first 8 characters of each task id

sbVars == <<sandboxes, aci_client, groups, id_prefix>>

VARIABLES
    sub_pc,           \* subscribe(channel, callback): the await it is suspended at
    sub_registered,   \* the server holds the subscription of the pubsub object
    listener,         \* the callback given to subscribe
    edit_target,      \* start_listening: its (channel_id, message_ts)
    inbox,            \* messages the server has delivered, not yet polled
    arrived,          \* history: number of messages delivered
    handled,          \* history: messages handed to the callback, in order
    chat_log,         \* history: chat calls made by the callback, in order
    sub_exit          \* the exception in flight while the finally block runs

psVars == <<sub_pc, sub_registered, listener, edit_target, inbox, arrived, handled,
            chat_log, sub_exit>>

VARIABLES
    post_input,       \* post_result: its arguments, with the length of `result`
    post_pc,          \* post_result: not called yet, or ended
    post_calls        \* history: chat calls post_result made

prVars == <<post_input, post_pc, post_calls>>

VARIABLES
    mention_event,    \* handle_app_mention: the event and whether a task manager is given
    mention_pc,       \* handle_app_mention: the await it is suspended at
    mention_task_id,  \* handle_app_mention: the task id it generated
    mention_calls     \* history: the calls made to `say` and to the task manager

mnVars == <<mention_event, mention_pc, mention_task_id, mention_calls>>

VARIABLES
    helper_env,       \* ask_user.py: whether TASK_ID and REDIS_URL are set
    helper_pc,        \* ask_user: the await it is suspended at
    helper_sub,       \* the server holds the helper's subscription to answer:{TASK_ID}
    helper_calls,     \* history: the pub/sub calls the helper made
    helper_inbox,     \* history: the messages delivered to the subscription
    helper_clock,     \* the time waited in wait_for, in ticks
    answers_sent,     \* history: how many messages were published on answer:{TASK_ID}
    helper_exit       \* the exit code and the standard output of the process

hpVars == <<helper_env, helper_pc, helper_sub, helper_calls, helper_inbox, helper_clock,
            answers_sent, helper_exit>>

\* The intake handlers and the in-container helper.
extVars == <<mnVars, hpVars>>

\* The components added after the orchestration core.
restVars == <<psVars, prVars, extVars>>

vars == <<ccVars, envVars, storeVars, tmVars, qhVars, rdVars, sbVars, restVars, last_return>>

\* What an action of one component leaves alone.
offController == <<envVars, storeVars, tmVars, qhVars, rdVars, sbVars, restVars>>

offTaskManager == <<envVars, qhVars, rdVars, sbVars, restVars>>

offQuestionHandler == <<envVars, ccVars, tmVars, store_idem, rdVars, sbVars, restVars>>

offRedisClient == <<envVars, ccVars, storeVars, tmVars, qhVars, sbVars, restVars>>

offSandboxManager == <<envVars, ccVars, storeVars, tmVars, qhVars, rdVars, restVars>>

\* ------------------------------------------ ConcurrencyController -------

\* Mutant of AcquireGranted: a slot is reported granted at any count.
AcquireGranted_Always(rc, max) == TRUE

\* acquire(): the value returned.
AcquireGranted(rc, max) == rc < max

\* Mutant of AcquireCount: the capacity test is dropped.
AcquireCount_Unchecked(rc, max) == rc + 1

\* acquire(): _running_count afterwards.
AcquireCount(rc, max) == IF rc < max THEN rc + 1 ELSE rc

\* Mutant of ReleaseDecrement: release leaves the count alone.
ReleaseDecrement_Kept(rc) == rc

\* release(): the decrement, clamped at 0.
ReleaseDecrement(rc) == IF rc > 0 THEN rc - 1 ELSE rc

\* Mutant of ReleaseTask: the newest queued task is handed out.
ReleaseTask_Newest(q) == IF q # <<>> THEN q[Len(q)] ELSE NoTask

\* release(): the task handed out (get_nowait takes the head), or NoTask.
ReleaseTask(q) == IF q # <<>> THEN Head(q) ELSE NoTask

\* release(): the queue afterwards.
ReleaseQueue(q) == IF q # <<>> THEN Tail(q) ELSE q

\* Mutant of ReleaseCount: no slot is kept for the dequeued task.
ReleaseCount_NoTransfer(rc, q) == ReleaseDecrement(rc)

\* release(): _running_count afterwards; the slot is re-reserved for a
\* dequeued task.
ReleaseCount(rc, q) ==
    IF q # <<>> THEN ReleaseDecrement(rc) + 1 ELSE ReleaseDecrement(rc)

\* enqueue(task): the queue afterwards.
EnqueueQueue(q, t) == Append(q, t)

InitController ==
    /\ max_concurrent \in 1..MaxCapacity
    /\ running_count = 0
    /\ queue = <<>>
    /\ enqueued = <<>>
    /\ handed_out = <<>>

\* The key-value store is empty and no TaskManager call has been made.
InitStore ==
    /\ store_task = [t \in Tasks |-> Absent]
    /\ store_idem = [k \in Keys |-> NoTask]

InitTaskManager ==
    /\ spc = [t \in Tasks |-> "idle"]
    /\ first_submitted = [k \in Keys |-> NoTask]
    /\ started = {}
    /\ cpc = [t \in Tasks |-> "idle"]
    /\ cnext = [t \in Tasks |-> NoTask]
    /\ kpc = [t \in Tasks |-> "idle"]
    /\ last_return = NoReturn

\* What is kept of the sequence of messages the server received: its length,
\* its first and last message, whether it is strictly increasing (in publish
\* order, none twice) and whether each message is the successor of the one
\* before (none left out in between).
NothingReceived ==
    [count |-> 0, first |-> 0, last |-> 0, ordered |-> TRUE, gapless |-> TRUE]

Deliver(r, m) ==
    IF r.count = 0
    THEN [count |-> 1, first |-> m, last |-> m, ordered |-> TRUE, gapless |-> TRUE]
    ELSE [count   |-> r.count + 1,
          first   |-> r.first,
          last    |-> m,
          ordered |-> r.ordered /\ m > r.last,
          gapless |-> r.gapless /\ m = r.last + 1]

\* The summary of the sequence lo, lo + 1, ..., hi.
ReceivedRange(lo, hi) ==
    [count |-> hi - lo + 1, first |-> lo, last |-> hi, ordered |-> TRUE,
     gapless |-> TRUE]

\* AsyncRedisClientImpl.__init__, lines 100-112, and a server that is up or
\* down.
InitRedisClient ==
    /\ server_up \in BOOLEAN
    /\ toggles = 0
    /\ connected = FALSE
    /\ local_queue = <<>>
    /\ reconnect_task = "none"
    /\ rpc = "none"
    /\ backoff = 0
    /\ sleeps = 0
    /\ flushing = 0
    /\ dpc = "idle"
    /\ disconnects = 0
    /\ received = NothingReceived
    /\ published = 0
    /\ publish_ops = 0
    /\ ever_connected = FALSE
    /\ outage_only = TRUE

\* The client of a component that the specification at hand leaves out.
InitRedisUnused ==
    /\ InitRedisClient
    /\ server_up = TRUE

\* No subscribe call has been made.
InitSubscriber ==
    /\ sub_pc = "idle"
    /\ sub_registered = FALSE
    /\ listener = "none"
    /\ edit_target = <<"none", "none">>
    /\ inbox = <<>>
    /\ arrived = 0
    /\ handled = <<>>
    /\ chat_log = <<>>
    /\ sub_exit = "none"

\* post_result has not been called; its arguments are not chosen.
InitPosterUnused ==
    /\ post_input = [length |-> 0, channel |-> "none", thread_ts |-> "none",
                     task_id |-> NoTask]
    /\ post_pc = "idle"
    /\ post_calls = <<>>

\* handle_app_mention has not been called; its event is not chosen.
InitMentionUnused ==
    /\ mention_event = [text |-> <<>>, user |-> "none", ts |-> "none",
                        channel |-> "none", task_manager |-> FALSE]
    /\ mention_pc = "idle"
    /\ mention_task_id = NoTask
    /\ mention_calls = <<>>

\* The process of ask_user.py has not started.
NotExited == [code |-> -1, stdout |-> "none"]

InitHelper ==
    /\ helper_pc = "idle"
    /\ helper_sub = FALSE
    /\ helper_calls = <<>>
    /\ helper_inbox = <<>>
    /\ helper_clock = 0
    /\ answers_sent = 0
    /\ helper_exit = NotExited

\* ask_user.py is not run.
InitHelperUnused ==
    /\ helper_env = TRUE
    /\ InitHelper

\* The intake handlers and the helper, in a specification that leaves them
\* out.
InitExtUnused ==
    /\ InitMentionUnused
    /\ InitHelperUnused

\* The later components, in a specification that leaves them out.
InitRestUnused ==
    /\ InitSubscriber
    /\ InitPosterUnused
    /\ InitExtUnused

\* The sandbox statuses create records, and the mark of a task id that is
\* not in the live map.
SandboxStatus == {"creating", "starting", "cloning", "running", "terminated", "failed"}

NoSandbox == "none"

\* Container group names, and the ways the 8-character prefixes of the task
\* ids relate: all different, or the first two alike.
GroupNames == {"sandbox-t1", "sandbox-t2", "sandbox-t3"}

PrefixAssignments ==
    { [t1 |-> "t1", t2 |-> "t2", t3 |-> "t3"],
      [t1 |-> "t1", t2 |-> "t1", t3 |-> "t3"] }

\* _generate_container_group_name, lines 191-200.
generate_container_group_name(t) ==
    IF id_prefix[t] = "t1" THEN "sandbox-t1"
    ELSE IF id_prefix[t] = "t2" THEN "sandbox-t2"
    ELSE "sandbox-t3"

\* AzureSandboxManagerImpl.__init__, lines 163-180, and an empty platform.
InitSandboxManager ==
    /\ sandboxes = [t \in Tasks |-> NoSandbox]
    /\ aci_client = FALSE
    /\ groups = {}
    /\ id_prefix \in PrefixAssignments

\* The same when no sandbox call is explored.
InitSandboxUnused ==
    /\ InitSandboxManager
    /\ id_prefix = [t \in Tasks |-> t]

InitQuestionHandler ==
    /\ qpc = [t \in Tasks |-> "idle"]
    /\ pending_questions = [t \in Tasks |-> NoQuestion]
    /\ answer_futures = [t \in Tasks |-> "none"]
    /\ answer = [t \in Tasks |-> "none"]
    /\ accepted = [t \in Tasks |-> 0]
    /\ qlog = [t \in Tasks |-> <<>>]

\* The controller on its own: the other components never act.
InitCC ==
    /\ InitController
    /\ InitStore
    /\ InitTaskManager
    /\ InitQuestionHandler
    /\ InitRedisUnused
    /\ InitSandboxUnused
    /\ InitRestUnused
    /\ idempotency_key = OwnKey
    /\ faults = FALSE
    /\ has_controller = TRUE
    /\ serial_submit = TRUE

acquire ==
    /\ running_count' = AcquireCount(running_count, max_concurrent)
    /\ UNCHANGED <<max_concurrent, queue, enqueued, handed_out>>
    /\ last_return' = NoReturn
    /\ UNCHANGED offController

release ==
    /\ running_count' = ReleaseCount(running_count, queue)
    /\ queue' = ReleaseQueue(queue)
    /\ handed_out' = IF ReleaseTask(queue) # NoTask
                     THEN Append(handed_out, ReleaseTask(queue))
                     ELSE handed_out
    /\ UNCHANGED <<max_concurrent, enqueued>>
    /\ last_return' = NoReturn
    /\ UNCHANGED offController

enqueue(t) ==
    /\ Len(queue) < MaxQueue
    /\ Len(enqueued) < MaxEnqueues
    /\ queue' = EnqueueQueue(queue, t)
    /\ enqueued' = Append(enqueued, t)
    /\ UNCHANGED <<max_concurrent, running_count, handed_out>>
    /\ last_return' = NoReturn
    /\ UNCHANGED offController

NextCC ==
    \/ acquire
    \/ release
    \/ \E t \in Tasks : enqueue(t)

SpecCC == InitCC /\ [][NextCC]_vars

\* --------------------------------------------------- TaskManagerImpl ----

\* How a key-value store call (RedisClient.get / set) or a chat call ends:
\* set and get raise on a disconnected client or a failed transport call.
CallOutcomes == IF faults THEN {"ok", "error"} ELSE {"ok"}

\* A call that ended: the operation, the task it was called with and what it
\* returned ("raised": it ended with an exception).
Return(op, t, value) == [op |-> op, task |-> t, value |-> value, log |-> <<>>]

\* The return of an on_question call, with what the call did, in order.
ReturnLog(t, value, log) ==
    [op |-> "on_question", task |-> t, value |-> value, log |-> log]

\* Mutant of IdempotencyHit: the stored id is ignored.
IdempotencyHit_Never(existing) == FALSE

\* submit: `existing_task_id is not None`.
IdempotencyHit(existing) == existing # NoTask

\* Mutant of CancelRefused: only a missing record is refused.
CancelRefused_AbsentOnly(status) == status = Absent

\* cancel / TERMINAL_STATES: the statuses cancel refuses.
CancelRefused(status) == status = Absent \/ status \in TERMINAL_STATES

InitTM ==
    /\ InitController
    /\ InitStore
    /\ InitTaskManager
    /\ InitQuestionHandler
    /\ InitRedisUnused
    /\ InitSandboxUnused
    /\ InitRestUnused
    /\ idempotency_key \in KeyAssignments
    /\ faults = FALSE
    /\ has_controller = TRUE
    /\ serial_submit \in BOOLEAN

\* submit, lines 159-167: the call starts and redis.get answers.
submit_get_returning(t, Ret(_, _)) ==
    LET k == idempotency_key[t]
        existing == store_idem[k]
    IN
    /\ spc[t] = "idle"
    /\ \A u \in Tasks : TaskIndex(u) < TaskIndex(t) => spc[u] # "idle"
    /\ serial_submit => \A u \in Tasks : spc[u] \in {"idle", "done"}
    /\ first_submitted' =
           IF first_submitted[k] = NoTask
           THEN [first_submitted EXCEPT ![k] = t]
           ELSE first_submitted
    /\ \E r \in CallOutcomes :
           IF r = "error"
           THEN /\ spc' = [spc EXCEPT ![t] = "done"]
                /\ last_return' = Ret(t, "raised")
           ELSE IF IdempotencyHit(existing)
           THEN /\ spc' = [spc EXCEPT ![t] = "done"]
                /\ last_return' = Ret(t, existing)
           ELSE /\ spc' = [spc EXCEPT ![t] = "set_idem"]
                /\ last_return' = NoReturn
    /\ UNCHANGED <<started, cpc, cnext, kpc>>
    /\ UNCHANGED <<ccVars, storeVars, offTaskManager>>

\* submit, lines 170-173: redis.set(idempotency:{key}, task.id).
submit_set_idem_returning(t, Ret(_, _)) ==
    /\ spc[t] = "set_idem"
    /\ \E r \in CallOutcomes :
           IF r = "error"
           THEN /\ spc' = [spc EXCEPT ![t] = "done"]
                /\ last_return' = Ret(t, "raised")
                /\ UNCHANGED store_idem
           ELSE /\ store_idem' = [store_idem EXCEPT ![idempotency_key[t]] = t]
                /\ spc' = [spc EXCEPT ![t] = "set_task"]
                /\ last_return' = NoReturn
    /\ UNCHANGED <<first_submitted, started, cpc, cnext, kpc>>
    /\ UNCHANGED <<ccVars, store_task, offTaskManager>>

\* submit, lines 174-196: redis.set(task:{id}) with the incoming pending
\* status, then acquire() and, when refused, enqueue(task) and return.
submit_set_task_returning(t, Ret(_, _)) ==
    /\ spc[t] = "set_task"
    /\ \E r \in CallOutcomes :
           IF r = "error"
           THEN /\ spc' = [spc EXCEPT ![t] = "done"]
                /\ last_return' = Ret(t, "raised")
                /\ UNCHANGED <<store_task, running_count, queue, enqueued>>
           ELSE IF ~has_controller
           THEN /\ store_task' = [store_task EXCEPT ![t] = "pending"]
                /\ spc' = [spc EXCEPT ![t] = "set_starting"]
                /\ last_return' = NoReturn
                /\ UNCHANGED <<running_count, queue, enqueued>>
           ELSE /\ store_task' = [store_task EXCEPT ![t] = "pending"]
                /\ running_count' = AcquireCount(running_count, max_concurrent)
                /\ IF AcquireGranted(running_count, max_concurrent)
                   THEN /\ spc' = [spc EXCEPT ![t] = "set_starting"]
                        /\ last_return' = NoReturn
                        /\ UNCHANGED <<queue, enqueued>>
                   ELSE /\ queue' = EnqueueQueue(queue, t)
                        /\ enqueued' = Append(enqueued, t)
                        /\ spc' = [spc EXCEPT ![t] = "done"]
                        /\ last_return' = Ret(t, t)
    /\ UNCHANGED <<first_submitted, started, cpc, cnext, kpc>>
    /\ UNCHANGED <<max_concurrent, handed_out, store_idem, offTaskManager>>

\* submit, lines 198-211: task.status = STARTING, redis.set(task:{id}).
submit_set_starting_returning(t, Ret(_, _)) ==
    /\ spc[t] = "set_starting"
    /\ \E r \in CallOutcomes :
           IF r = "error"
           THEN /\ spc' = [spc EXCEPT ![t] = "done"]
                /\ last_return' = Ret(t, "raised")
                /\ UNCHANGED <<store_task, started>>
           ELSE /\ store_task' = [store_task EXCEPT ![t] = "starting"]
                /\ spc' = [spc EXCEPT ![t] = "done"]
                /\ last_return' = Ret(t, t)
                /\ started' = started \cup {t}
    /\ UNCHANGED <<first_submitted, cpc, cnext, kpc>>
    /\ UNCHANGED <<ccVars, store_idem, offTaskManager>>

\* What a submit call returns: the task id, or "raised".
SubmitReturn(t, value) == Return("submit", t, value)

submit_get(t) == submit_get_returning(t, SubmitReturn)

submit_set_idem(t) == submit_set_idem_returning(t, SubmitReturn)

submit_set_task(t) == submit_set_task_returning(t, SubmitReturn)

submit_set_starting(t) == submit_set_starting_returning(t, SubmitReturn)

\* What a submit_with_result call returns: SubmitResult(task_id, queued), or
\* "raised".
SubmitResultReturn(t, task_id, queued) ==
    [op |-> "submit_with_result", task |-> t, value |-> task_id, log |-> <<queued>>]

SubmitResultRaised(t) ==
    [op |-> "submit_with_result", task |-> t, value |-> "raised", log |-> <<>>]

\* Mutant of QueuedFlag: the flag is set for every task the call registered.
QueuedFlag_Registered(has, acquired) == has

\* submit_with_result, lines 258-284: `queued` is set when there is a
\* controller and acquire() refused.
QueuedFlag(has, acquired) == has /\ ~acquired

\* submit_with_result, lines 230-239: redis.get(idempotency:{key}); a stored
\* id is returned with queued=False.
submit_with_result_get(t) ==
    LET k == idempotency_key[t]
        existing == store_idem[k]
    IN
    /\ spc[t] = "idle"
    /\ \A u \in Tasks : TaskIndex(u) < TaskIndex(t) => spc[u] # "idle"
    /\ serial_submit => \A u \in Tasks : spc[u] \in {"idle", "done"}
    /\ first_submitted' =
           IF first_submitted[k] = NoTask
           THEN [first_submitted EXCEPT ![k] = t]
           ELSE first_submitted
    /\ \E r \in CallOutcomes :
           IF r = "error"
           THEN /\ spc' = [spc EXCEPT ![t] = "done"]
                /\ last_return' = SubmitResultRaised(t)
           ELSE IF existing # NoTask
           THEN /\ spc' = [spc EXCEPT ![t] = "done"]
                /\ last_return' = SubmitResultReturn(t, existing, FALSE)
           ELSE /\ spc' = [spc EXCEPT ![t] = "set_idem"]
                /\ last_return' = NoReturn
    /\ UNCHANGED <<started, cpc, cnext, kpc>>
    /\ UNCHANGED <<ccVars, storeVars, offTaskManager>>

\* submit_with_result, lines 241-245: redis.set(idempotency:{key}, task.id).
submit_with_result_set_idem(t) ==
    /\ spc[t] = "set_idem"
    /\ \E r \in CallOutcomes :
           IF r = "error"
           THEN /\ spc' = [spc EXCEPT ![t] = "done"]
                /\ last_return' = SubmitResultRaised(t)
                /\ UNCHANGED store_idem
           ELSE /\ store_idem' = [store_idem EXCEPT ![idempotency_key[t]] = t]
                /\ spc' = [spc EXCEPT ![t] = "set_task"]
                /\ last_return' = NoReturn
    /\ UNCHANGED <<first_submitted, started, cpc, cnext, kpc>>
    /\ UNCHANGED <<ccVars, store_task, offTaskManager>>

\* submit_with_result, lines 245-270: redis.set(task:{id}) with the incoming
\* pending status, then acquire() and, when refused, enqueue(task) and
\* return with queued=True.
submit_with_result_set_task(t) ==
    LET acquired == running_count < max_concurrent IN
    /\ spc[t] = "set_task"
    /\ \E r \in CallOutcomes :
           IF r = "error"
           THEN /\ spc' = [spc EXCEPT ![t] = "done"]
                /\ last_return' = SubmitResultRaised(t)
                /\ UNCHANGED <<store_task, running_count, queue, enqueued>>
           ELSE /\ store_task' = [store_task EXCEPT ![t] = "pending"]
                /\ IF has_controller /\ ~acquired
                   THEN /\ queue' = EnqueueQueue(queue, t)
                        /\ enqueued' = Append(enqueued, t)
                        /\ spc' = [spc EXCEPT ![t] = "done"]
                        /\ last_return' =
                               SubmitResultReturn(t, t, QueuedFlag(has_controller, acquired))
                        /\ UNCHANGED running_count
                   ELSE /\ running_count' =
                               IF has_controller THEN running_count + 1 ELSE running_count
                        /\ spc' = [spc EXCEPT ![t] = "set_starting"]
                        /\ last_return' = NoReturn
                        /\ UNCHANGED <<queue, enqueued>>
    /\ UNCHANGED <<first_submitted, started, cpc, cnext, kpc>>
    /\ UNCHANGED <<max_concurrent, handed_out, store_idem, offTaskManager>>

\* submit_with_result, lines 272-284: task.status = STARTING,
\* redis.set(task:{id}); `queued` is still False here.
submit_with_result_set_starting(t) ==
    /\ spc[t] = "set_starting"
    /\ \E r \in CallOutcomes :
           IF r = "error"
           THEN /\ spc' = [spc EXCEPT ![t] = "done"]
                /\ last_return' = SubmitResultRaised(t)
                /\ UNCHANGED <<store_task, started>>
           ELSE /\ store_task' = [store_task EXCEPT ![t] = "starting"]
                /\ spc' = [spc EXCEPT ![t] = "done"]
                /\ last_return' = SubmitResultReturn(t, t, QueuedFlag(has_controller, TRUE))
                /\ started' = started \cup {t}
    /\ UNCHANGED <<first_submitted, cpc, cnext, kpc>>
    /\ UNCHANGED <<ccVars, store_idem, offTaskManager>>

\* on_task_complete, lines 299-305: called once for a task the caller
\* started, after the task has ended; without a controller return None,
\* else release() and, with no next task, return None.
complete_release(t) ==
    LET next == ReleaseTask(queue) IN
    /\ t \in started
    /\ store_task[t] \in TERMINAL_STATES
    /\ cpc[t] = "idle"
    /\ started' = started \ {t}
    /\ IF ~has_controller
       THEN /\ last_return' = Return("on_task_complete", t, NoTask)
            /\ UNCHANGED <<running_count, queue, handed_out, cnext, cpc>>
       ELSE /\ running_count' = ReleaseCount(running_count, queue)
            /\ queue' = ReleaseQueue(queue)
            /\ handed_out' = IF next # NoTask THEN Append(handed_out, next) ELSE handed_out
            /\ cnext' = [cnext EXCEPT ![t] = next]
            /\ IF next = NoTask
               THEN /\ last_return' = Return("on_task_complete", t, NoTask)
                    /\ UNCHANGED cpc
               ELSE /\ cpc' = [cpc EXCEPT ![t] = "set_starting"]
                    /\ last_return' = NoReturn
    /\ UNCHANGED <<spc, first_submitted, kpc>>
    /\ UNCHANGED <<max_concurrent, enqueued, storeVars, offTaskManager>>

\* on_task_complete, lines 305-315: next_task.status = STARTING,
\* redis.set(task:{next_task.id}), return next_task.
complete_set_starting(t) ==
    /\ cpc[t] = "set_starting"
    /\ cpc' = [cpc EXCEPT ![t] = "idle"]
    /\ \E r \in CallOutcomes :
           IF r = "error"
           THEN /\ last_return' = Return("on_task_complete", t, "raised")
                /\ UNCHANGED <<store_task, started>>
           ELSE /\ store_task' = [store_task EXCEPT ![cnext[t]] = "starting"]
                /\ last_return' = Return("on_task_complete", t, cnext[t])
                /\ started' = started \cup {cnext[t]}
    /\ UNCHANGED <<spc, first_submitted, cnext, kpc>>
    /\ UNCHANGED <<ccVars, store_idem, offTaskManager>>

\* cancel, lines 356-370: redis.get(task:{id}); absent or terminal: False.
cancel_get(t) ==
    /\ kpc[t] = "idle"
    /\ \E r \in CallOutcomes :
           IF r = "error"
           THEN /\ last_return' = Return("cancel", t, "raised")
                /\ UNCHANGED kpc
           ELSE IF CancelRefused(store_task[t])
           THEN /\ last_return' = Return("cancel", t, "false")
                /\ UNCHANGED kpc
           ELSE /\ kpc' = [kpc EXCEPT ![t] = "set_cancelled"]
                /\ last_return' = NoReturn
    /\ UNCHANGED <<spc, first_submitted, started, cpc, cnext>>
    /\ UNCHANGED <<ccVars, storeVars, offTaskManager>>

\* cancel, lines 372-381: task.status = CANCELLED, redis.set, return True.
cancel_set_cancelled(t) ==
    /\ kpc[t] = "set_cancelled"
    /\ kpc' = [kpc EXCEPT ![t] = "idle"]
    /\ \E r \in CallOutcomes :
           IF r = "error"
           THEN /\ last_return' = Return("cancel", t, "raised")
                /\ UNCHANGED store_task
           ELSE /\ store_task' = [store_task EXCEPT ![t] = "cancelled"]
                /\ last_return' = Return("cancel", t, "true")
    /\ UNCHANGED <<spc, first_submitted, started, cpc, cnext>>
    /\ UNCHANGED <<ccVars, store_idem, offTaskManager>>

\* The executor that runs a started task (outside this repository's source)
\* reports its progress through the lifecycle of the state machine:
\* starting -> cloning -> running -> completed, or failed.
LifecycleSteps(status) ==
    IF status = "starting" THEN {"cloning", "failed"}
    ELSE IF status = "cloning" THEN {"running", "failed"}
    ELSE IF status = "running" THEN {"completed", "failed"}
    ELSE {}

lifecycle_advance(t) ==
    /\ \E s \in LifecycleSteps(store_task[t]) :
           store_task' = [store_task EXCEPT ![t] = s]
    /\ last_return' = NoReturn
    /\ UNCHANGED <<ccVars, store_idem, tmVars, offTaskManager>>

NextTM ==
    \E t \in Tasks :
        \/ submit_get(t)
        \/ submit_set_idem(t)
        \/ submit_set_task(t)
        \/ submit_set_starting(t)
        \/ complete_release(t)
        \/ complete_set_starting(t)
        \/ cancel_get(t)
        \/ cancel_set_cancelled(t)
        \/ lifecycle_advance(t)

SpecTM == InitTM /\ [][NextTM]_vars

\* Mutant of GetStatusValue: a task without record is reported as pending.
GetStatusValue_Pending(status) == IF status = Absent THEN "pending" ELSE status

\* get_status, lines 331-339: the status of the record, or ValueError
\* ("not_found") when there is none.
GetStatusValue(status) == IF status = Absent THEN "not_found" ELSE status

\* get_status, lines 317-339.
task_get_status(t) ==
    /\ \E r \in CallOutcomes :
           IF r = "error"
           THEN last_return' = Return("get_status", t, "raised")
           ELSE last_return' = Return("get_status", t, GetStatusValue(store_task[t]))
    /\ UNCHANGED <<ccVars, storeVars, tmVars, offTaskManager>>

\* Submits made one after another over a store whose calls may fail, with
\* any sharing of idempotency keys.
InitIntake ==
    /\ InitController
    /\ InitStore
    /\ InitTaskManager
    /\ InitQuestionHandler
    /\ InitRedisUnused
    /\ InitSandboxUnused
    /\ InitRestUnused
    /\ idempotency_key \in KeyAssignments
    /\ faults = TRUE
    /\ has_controller = TRUE
    /\ serial_submit = TRUE

NextIntake ==
    \E t \in Tasks :
        \/ submit_get(t)
        \/ submit_set_idem(t)
        \/ submit_set_task(t)
        \/ submit_set_starting(t)
        \/ task_get_status(t)

SpecIntake == InitIntake /\ [][NextIntake]_vars

\* submit_with_result calls, overlapping or not, with any sharing of
\* idempotency keys, with or without a controller, over a store whose calls
\* may fail.
InitSubmitResult ==
    /\ InitController
    /\ InitStore
    /\ InitTaskManager
    /\ InitQuestionHandler
    /\ InitRedisUnused
    /\ InitSandboxUnused
    /\ InitRestUnused
    /\ idempotency_key \in KeyAssignments
    /\ faults = TRUE
    /\ has_controller \in BOOLEAN
    /\ serial_submit \in BOOLEAN

NextSubmitResult ==
    \E t \in Tasks :
        \/ submit_with_result_get(t)
        \/ submit_with_result_set_idem(t)
        \/ submit_with_result_set_task(t)
        \/ submit_with_result_set_starting(t)

SpecSubmitResult == InitSubmitResult /\ [][NextSubmitResult]_vars

\* submit, lines 174-177, with each awaited call a step of its own:
\* redis.set(task:{id}) with the incoming pending status.
submit_set_task_suspending(t) ==
    /\ spc[t] = "set_task"
    /\ \E r \in CallOutcomes :
           IF r = "error"
           THEN /\ spc' = [spc EXCEPT ![t] = "done"]
                /\ last_return' = Return("submit", t, "raised")
                /\ UNCHANGED store_task
           ELSE /\ store_task' = [store_task EXCEPT ![t] = "pending"]
                /\ spc' = [spc EXCEPT ![t] =
                               IF has_controller THEN "acquire" ELSE "set_starting"]
                /\ last_return' = NoReturn
    /\ UNCHANGED <<first_submitted, started, cpc, cnext, kpc>>
    /\ UNCHANGED <<ccVars, store_idem, offTaskManager>>

\* submit, lines 185-187: `acquired = await controller.acquire()`.
submit_acquire(t) ==
    /\ spc[t] = "acquire"
    /\ running_count' = AcquireCount(running_count, max_concurrent)
    /\ spc' = [spc EXCEPT ![t] =
                   IF AcquireGranted(running_count, max_concurrent)
                   THEN "set_starting" ELSE "enqueue"]
    /\ last_return' = NoReturn
    /\ UNCHANGED <<first_submitted, started, cpc, cnext, kpc>>
    /\ UNCHANGED <<max_concurrent, queue, enqueued, handed_out, storeVars, offTaskManager>>

\* submit, lines 188-196: `await controller.enqueue(task)` and return.
submit_enqueue(t) ==
    /\ spc[t] = "enqueue"
    /\ queue' = EnqueueQueue(queue, t)
    /\ enqueued' = Append(enqueued, t)
    /\ spc' = [spc EXCEPT ![t] = "done"]
    /\ last_return' = Return("submit", t, t)
    /\ UNCHANGED <<first_submitted, started, cpc, cnext, kpc>>
    /\ UNCHANGED <<max_concurrent, running_count, handed_out, storeVars, offTaskManager>>

\* submit and on_task_complete with a step for every awaited controller and
\* store call.
NextSuspending ==
    \E t \in Tasks :
        \/ submit_get(t)
        \/ submit_set_idem(t)
        \/ submit_set_task_suspending(t)
        \/ submit_acquire(t)
        \/ submit_enqueue(t)
        \/ submit_set_starting(t)
        \/ complete_release(t)
        \/ complete_set_starting(t)
        \/ lifecycle_advance(t)

InitSuspending ==
    /\ InitController
    /\ InitStore
    /\ InitTaskManager
    /\ InitQuestionHandler
    /\ InitRedisUnused
    /\ InitSandboxUnused
    /\ InitRestUnused
    /\ idempotency_key = OwnKey
    /\ faults = FALSE
    /\ has_controller = TRUE
    /\ serial_submit = FALSE

SpecSuspending == InitSuspending /\ [][NextSuspending]_vars

\* The event loop resumes every suspended call, every started task ends, and
\* the caller calls on_task_complete for every task that holds a slot and
\* has ended.  New submit calls are not forced.
FairSuspending ==
    \A t \in Tasks :
        /\ WF_vars(submit_set_idem(t))
        /\ WF_vars(submit_set_task_suspending(t))
        /\ WF_vars(submit_acquire(t))
        /\ WF_vars(submit_enqueue(t))
        /\ WF_vars(submit_set_starting(t))
        /\ WF_vars(lifecycle_advance(t))
        /\ WF_vars(complete_release(t))
        /\ WF_vars(complete_set_starting(t))

SpecSuspendingFair == SpecSuspending /\ FairSuspending

\* A TaskManager with a controller over a key-value store whose calls may
\* fail; every task has its own idempotency key.
InitFaulty ==
    /\ InitController
    /\ InitStore
    /\ InitTaskManager
    /\ InitQuestionHandler
    /\ InitRedisUnused
    /\ InitSandboxUnused
    /\ InitRestUnused
    /\ idempotency_key = OwnKey
    /\ faults = TRUE
    /\ has_controller = TRUE
    /\ serial_submit = FALSE

SpecFaulty == InitFaulty /\ [][NextTM]_vars

\* The event loop resumes every suspended call, every started task ends, and
\* the caller calls on_task_complete for every task it started that has
\* ended.  New submit and cancel calls are not forced.
FairTM ==
    \A t \in Tasks :
        /\ WF_vars(submit_set_idem(t))
        /\ WF_vars(submit_set_task(t))
        /\ WF_vars(submit_set_starting(t))
        /\ WF_vars(lifecycle_advance(t))
        /\ WF_vars(complete_release(t))
        /\ WF_vars(complete_set_starting(t))
        /\ WF_vars(cancel_set_cancelled(t))

SpecFaultyFair == SpecFaulty /\ FairTM

\* A TaskManager built with or without a controller; every task has its own
\* idempotency key.
InitComplete ==
    /\ InitController
    /\ InitStore
    /\ InitTaskManager
    /\ InitQuestionHandler
    /\ InitRedisUnused
    /\ InitSandboxUnused
    /\ InitRestUnused
    /\ idempotency_key = OwnKey
    /\ faults = FALSE
    /\ has_controller \in BOOLEAN
    /\ serial_submit \in BOOLEAN

SpecComplete == InitComplete /\ [][NextTM]_vars

\* cancel on a fresh TaskManager over a key-value store that holds, from
\* earlier runs of the orchestrator, any record or none for each task.
InitCancel ==
    /\ InitController
    /\ max_concurrent = MaxCapacity
    /\ InitTaskManager
    /\ InitQuestionHandler
    /\ InitRedisUnused
    /\ InitSandboxUnused
    /\ InitRestUnused
    /\ idempotency_key = OwnKey
    /\ faults = FALSE
    /\ has_controller = TRUE
    /\ serial_submit = TRUE
    /\ store_task \in [Tasks -> TaskStatus \cup {Absent}]
    /\ store_idem = [k \in Keys |->
                        IF \E t \in Tasks : OwnKey[t] = k /\ store_task[t] # Absent
                        THEN CHOOSE t \in Tasks : OwnKey[t] = k
                        ELSE NoTask]

NextCancel ==
    \E t \in Tasks :
        \/ cancel_get(t)
        \/ cancel_set_cancelled(t)
        \/ lifecycle_advance(t)

SpecCancel == InitCancel /\ [][NextCancel]_vars

\* --------------------------------------------------- QuestionHandler ----

\* The tasks whose question channel is followed.
QHTasks == {"t1", "t2"}

\* submit_answer accepting whenever a future is registered, done or not.
AnswerAccepted_Registered(future) == future # "none"

\* submit_answer: `future is not None and not future.done()`.
AnswerAccepted(future) == future = "pending"

TimeoutStatus_Failed == "failed"

\* handle_question, line 174: the status persisted when the wait times out.
TimeoutStatus == "cancelled"

ResumedStatus_Starting == "starting"

\* on_question, line 287: the status persisted after the answer is published.
ResumedStatus == "running"

\* The positions at which a handle_question call for the task is in progress.
InHandleQuestion ==
    {"set_waiting", "post_question", "waiting", "set_cancelled", "post_timeout"}

\* on_question, lines 270-279, and handle_question, lines 125-138: a question
\* published by the task's sandbox is delivered (the subscribe loop awaits
\* each callback, so one at a time); redis.get(task:{id}); when the record
\* exists the HumanQuestion is registered.  An exception leaves the callback
\* and ends the subscription.
question_arrive(t, q) ==
    /\ qpc[t] = "idle"
    /\ \E r \in CallOutcomes :
           IF r = "error"
           THEN /\ qpc' = [qpc EXCEPT ![t] = "ended"]
                /\ last_return' = ReturnLog(t, "raised", <<>>)
                /\ UNCHANGED <<pending_questions, accepted, qlog>>
           ELSE IF store_task[t] = Absent
           THEN /\ last_return' = ReturnLog(t, "not_found", <<>>)
                /\ UNCHANGED <<qpc, pending_questions, accepted, qlog>>
           ELSE /\ pending_questions' = [pending_questions EXCEPT ![t] = q]
                /\ accepted' = [accepted EXCEPT ![t] = 0]
                /\ qlog' = [qlog EXCEPT ![t] =
                                << <<"get", store_task[t]>>, <<"question", q>> >>]
                /\ qpc' = [qpc EXCEPT ![t] = "set_waiting"]
                /\ last_return' = NoReturn
    /\ UNCHANGED <<answer_futures, answer, store_task, offQuestionHandler>>

\* handle_question, lines 133-138: task.status = WAITING_USER, redis.set.
\* An exception here is raised before the try block: nothing is cleaned.
question_set_waiting(t) ==
    /\ qpc[t] = "set_waiting"
    /\ \E r \in CallOutcomes :
           IF r = "error"
           THEN /\ qpc' = [qpc EXCEPT ![t] = "ended"]
                /\ qlog' = [qlog EXCEPT ![t] = <<>>]
                /\ last_return' = ReturnLog(t, "raised", qlog[t])
                /\ UNCHANGED store_task
           ELSE /\ store_task' = [store_task EXCEPT ![t] = "waiting_user"]
                /\ qlog' = [qlog EXCEPT ![t] = Append(@, <<"set", "waiting_user">>)]
                /\ qpc' = [qpc EXCEPT ![t] = "post_question"]
                /\ last_return' = NoReturn
    /\ UNCHANGED <<pending_questions, answer_futures, answer, accepted>>
    /\ UNCHANGED offQuestionHandler

\* handle_question, lines 142-166: the question is posted to the thread, the
\* future is created and registered, and wait_for starts.  An exception of
\* the post is raised before the try block: nothing is cleaned.
question_post(t) ==
    /\ qpc[t] = "post_question"
    /\ \E r \in CallOutcomes :
           IF r = "error"
           THEN /\ qpc' = [qpc EXCEPT ![t] = "ended"]
                /\ qlog' = [qlog EXCEPT ![t] = <<>>]
                /\ last_return' = ReturnLog(t, "raised", qlog[t])
                /\ UNCHANGED answer_futures
           ELSE /\ qlog' = [qlog EXCEPT ![t] = Append(@, <<"post", pending_questions[t]>>)]
                /\ answer_futures' = [answer_futures EXCEPT ![t] = "pending"]
                /\ qpc' = [qpc EXCEPT ![t] = "waiting"]
                /\ last_return' = NoReturn
    /\ UNCHANGED <<pending_questions, answer, accepted, store_task>>
    /\ UNCHANGED offQuestionHandler

\* submit_answer, lines 197-217.
submit_answer(t, a) ==
    /\ IF AnswerAccepted(answer_futures[t])
       THEN /\ answer_futures' = [answer_futures EXCEPT ![t] = a]
            /\ accepted' = [accepted EXCEPT ![t] = @ + 1]
            /\ last_return' = Return("submit_answer", t, "true")
       ELSE /\ last_return' = Return("submit_answer", t, "false")
            /\ UNCHANGED <<answer_futures, accepted>>
    /\ UNCHANGED <<qpc, pending_questions, answer, qlog, store_task>>
    /\ UNCHANGED offQuestionHandler

\* handle_question, lines 163-168 and 192-195, on_question, lines 281-283:
\* wait_for returns the future's result, both maps are cleaned, and the
\* callback goes on to publish the answer.
question_wake(t) ==
    /\ qpc[t] = "waiting"
    /\ answer_futures[t] \in Answers
    /\ answer' = [answer EXCEPT ![t] = answer_futures[t]]
    /\ pending_questions' = [pending_questions EXCEPT ![t] = NoQuestion]
    /\ answer_futures' = [answer_futures EXCEPT ![t] = "none"]
    /\ accepted' = [accepted EXCEPT ![t] = 0]
    /\ qlog' = [qlog EXCEPT ![t] = Append(@, <<"return", answer_futures[t]>>)]
    /\ qpc' = [qpc EXCEPT ![t] = "publish"]
    /\ last_return' = NoReturn
    /\ UNCHANGED <<store_task, offQuestionHandler>>

\* handle_question, lines 170-178: the timeout elapses with the future
\* unfulfilled; wait_for cancels the future and raises TimeoutError.
question_timeout(t) ==
    /\ qpc[t] = "waiting"
    /\ answer_futures[t] = "pending"
    /\ answer_futures' = [answer_futures EXCEPT ![t] = "cancelled"]
    /\ qpc' = [qpc EXCEPT ![t] = "set_cancelled"]
    /\ last_return' = NoReturn
    /\ UNCHANGED <<pending_questions, answer, accepted, qlog, store_task>>
    /\ UNCHANGED offQuestionHandler

\* handle_question, lines 173-178: task.status = CANCELLED, redis.set.  An
\* exception runs the finally block and leaves the callback.
question_set_cancelled(t) ==
    /\ qpc[t] = "set_cancelled"
    /\ \E r \in CallOutcomes :
           IF r = "error"
           THEN /\ qpc' = [qpc EXCEPT ![t] = "ended"]
                /\ pending_questions' = [pending_questions EXCEPT ![t] = NoQuestion]
                /\ answer_futures' = [answer_futures EXCEPT ![t] = "none"]
                /\ accepted' = [accepted EXCEPT ![t] = 0]
                /\ qlog' = [qlog EXCEPT ![t] = <<>>]
                /\ last_return' = ReturnLog(t, "raised", qlog[t])
                /\ UNCHANGED store_task
           ELSE /\ store_task' = [store_task EXCEPT ![t] = TimeoutStatus]
                /\ qlog' = [qlog EXCEPT ![t] = Append(@, <<"set", TimeoutStatus>>)]
                /\ qpc' = [qpc EXCEPT ![t] = "post_timeout"]
                /\ last_return' = NoReturn
                /\ UNCHANGED <<pending_questions, answer_futures, accepted>>
    /\ UNCHANGED <<answer, offQuestionHandler>>

\* handle_question, lines 180-195, on_question, line 281: the timeout notice
\* is posted, None is returned, the finally block cleans both maps and the
\* callback returns.
question_post_timeout(t) ==
    /\ qpc[t] = "post_timeout"
    /\ pending_questions' = [pending_questions EXCEPT ![t] = NoQuestion]
    /\ answer_futures' = [answer_futures EXCEPT ![t] = "none"]
    /\ accepted' = [accepted EXCEPT ![t] = 0]
    /\ qlog' = [qlog EXCEPT ![t] = <<>>]
    /\ \E r \in CallOutcomes :
           IF r = "error"
           THEN /\ qpc' = [qpc EXCEPT ![t] = "ended"]
                /\ last_return' = ReturnLog(t, "raised", qlog[t])
           ELSE /\ qpc' = [qpc EXCEPT ![t] = "idle"]
                /\ last_return' =
                       ReturnLog(t, "no_answer",
                                 Append(qlog[t], <<"post", "timeout">>))
    /\ UNCHANGED <<answer, store_task, offQuestionHandler>>

\* on_question, lines 281-284: redis.publish(answer:{task_id}, answer);
\* publish hands no failure to its caller (client.py, lines 149-162).
question_publish(t) ==
    /\ qpc[t] = "publish"
    /\ qlog' = [qlog EXCEPT ![t] = Append(@, <<"publish", answer[t]>>)]
    /\ qpc' = [qpc EXCEPT ![t] = "set_running"]
    /\ last_return' = NoReturn
    /\ UNCHANGED answer
    /\ UNCHANGED <<pending_questions, answer_futures, accepted>>
    /\ UNCHANGED <<store_task, offQuestionHandler>>

\* on_question, lines 286-292: task.status = RUNNING, redis.set, and the
\* callback returns.
question_set_running(t) ==
    /\ qpc[t] = "set_running"
    /\ answer' = [answer EXCEPT ![t] = "none"]
    /\ qlog' = [qlog EXCEPT ![t] = <<>>]
    /\ \E r \in CallOutcomes :
           IF r = "error"
           THEN /\ qpc' = [qpc EXCEPT ![t] = "ended"]
                /\ last_return' = ReturnLog(t, "raised", qlog[t])
                /\ UNCHANGED store_task
           ELSE /\ store_task' = [store_task EXCEPT ![t] = ResumedStatus]
                /\ qpc' = [qpc EXCEPT ![t] = "idle"]
                /\ last_return' =
                       ReturnLog(t, "answered",
                                 Append(qlog[t], <<"set", ResumedStatus>>))
    /\ UNCHANGED <<pending_questions, answer_futures, accepted>>
    /\ UNCHANGED offQuestionHandler

\* The states in which the question channels are followed: the tasks of
\* `submitted`, each under its own key, have been through submit below the
\* concurrency limit, so each holds a slot, and their sandboxes, which are
\* what publishes questions, are running.
SubmittedSets == {{"t1"}, {"t1", "t2"}}

InitSubmitted(submitted) ==
    /\ max_concurrent = MaxCapacity
    /\ running_count = Cardinality(submitted)
    /\ running_count <= max_concurrent
    /\ queue = <<>>
    /\ enqueued = <<>>
    /\ handed_out = <<>>
    /\ idempotency_key = OwnKey
    /\ store_task = [t \in Tasks |-> IF t \in submitted THEN "running" ELSE Absent]
    /\ store_idem = [k \in Keys |->
                        IF \E t \in submitted : OwnKey[t] = k
                        THEN CHOOSE t \in submitted : OwnKey[t] = k
                        ELSE NoTask]
    /\ first_submitted = store_idem
    /\ spc = [t \in Tasks |-> IF t \in submitted THEN "done" ELSE "idle"]
    /\ started = submitted
    /\ cpc = [t \in Tasks |-> "idle"]
    /\ cnext = [t \in Tasks |-> NoTask]
    /\ kpc = [t \in Tasks |-> "idle"]
    /\ last_return = NoReturn

InitQH ==
    /\ \E submitted \in SubmittedSets : InitSubmitted(submitted)
    /\ InitQuestionHandler
    /\ InitRedisUnused
    /\ InitSandboxUnused
    /\ InitRestUnused
    /\ faults = FALSE
    /\ has_controller = TRUE
    /\ serial_submit = FALSE

NextQH ==
    \E t \in QHTasks :
        \/ cancel_get(t)
        \/ cancel_set_cancelled(t)
        \/ lifecycle_advance(t)
        \/ \E q \in Questions : question_arrive(t, q)
        \/ question_set_waiting(t)
        \/ question_post(t)
        \/ \E a \in Answers : submit_answer(t, a)
        \/ question_wake(t)
        \/ question_timeout(t)
        \/ question_set_cancelled(t)
        \/ question_post_timeout(t)
        \/ question_publish(t)
        \/ question_set_running(t)

\* The question handler beside cancel and the executor, on a working store.
SpecQH == InitQH /\ [][NextQH]_vars

\* handle_question, lines 163-170, where wait_for is built on
\* asyncio.timeout (Python 3.12 and later): the deadline passes in the loop
\* iteration in which submit_answer set the result, before the waiting
\* coroutine is resumed; the expiry cancels the task, whose wake-up then
\* raises, and wait_for raises TimeoutError although the future holds the
\* answer.  (Before 3.12 wait_for returns the result of a done future.)
question_timeout_after_answer(t) ==
    /\ qpc[t] = "waiting"
    /\ answer_futures[t] \in Answers
    /\ qpc' = [qpc EXCEPT ![t] = "set_cancelled"]
    /\ last_return' = NoReturn
    /\ UNCHANGED <<pending_questions, answer_futures, answer, accepted, qlog, store_task>>
    /\ UNCHANGED offQuestionHandler

NextQHAnyBuild ==
    \E t \in QHTasks :
        \/ \E q \in Questions : question_arrive(t, q)
        \/ question_set_waiting(t)
        \/ question_post(t)
        \/ \E a \in Answers : submit_answer(t, a)
        \/ question_wake(t)
        \/ question_timeout(t)
        \/ question_timeout_after_answer(t)
        \/ question_set_cancelled(t)
        \/ question_post_timeout(t)
        \/ question_publish(t)
        \/ question_set_running(t)

\* The question handler on a working store, on any supported interpreter.
SpecQHAnyBuild == InitQH /\ [][NextQHAnyBuild]_vars

InitQHFaults ==
    /\ \E submitted \in SubmittedSets : InitSubmitted(submitted)
    /\ InitQuestionHandler
    /\ InitRedisUnused
    /\ InitSandboxUnused
    /\ InitRestUnused
    /\ faults = TRUE
    /\ has_controller = TRUE
    /\ serial_submit = FALSE

\* The same, with key-value store and chat calls that may raise.
SpecQHFaults == InitQHFaults /\ [][NextQH]_vars

\* ----------------------------------------------- AsyncRedisClientImpl ----

\* client.py, line 23.
LOCAL_QUEUE_MAX_SIZE == 100

\* client.py, lines 96-98, in seconds.
INITIAL_BACKOFF == 1

MAX_BACKOFF == 30

BACKOFF_MULTIPLIER == 2

Min(a, b) == IF a <= b THEN a ELSE b

\* Mutant of BackoffAfter: the cap is dropped.
BackoffAfter_Uncapped(b) == b * BACKOFF_MULTIPLIER

\* _reconnect, line 289: the backoff after a sleep.
BackoffAfter(b) == Min(b * BACKOFF_MULTIPLIER, MAX_BACKOFF)

\* Lengths of the runs of consecutive publish calls explored.  On a
\* disconnected client publish has no await, so a run made by one caller is
\* one step of the event loop.
PublishRuns == {1, LOCAL_QUEUE_MAX_SIZE + 1}

\* deque(maxlen=LOCAL_QUEUE_MAX_SIZE).append: a full deque drops its head.
DequeAppend(q, m) ==
    IF Len(q) >= LOCAL_QUEUE_MAX_SIZE THEN Append(Tail(q), m) ELSE Append(q, m)

\* deque(maxlen=LOCAL_QUEUE_MAX_SIZE).appendleft: a full deque drops its end.
DequeAppendLeft(q, m) ==
    IF Len(q) >= LOCAL_QUEUE_MAX_SIZE
    THEN <<m>> \o SubSeq(q, 1, Len(q) - 1)
    ELSE <<m>> \o q

\* _add_to_local_queue called for the messages first .. first + k - 1: each
\* call appends at the end and a full deque drops its head, which leaves the
\* newest LOCAL_QUEUE_MAX_SIZE of the old content followed by the run.
AddToLocalQueue(q, first, k) ==
    LET all == q \o [i \in 1..k |-> first + i - 1]
    IN  IF k = 1 THEN DequeAppend(q, first)
        ELSE IF Len(all) > LOCAL_QUEUE_MAX_SIZE
        THEN SubSeq(all, Len(all) - LOCAL_QUEUE_MAX_SIZE + 1, Len(all))
        ELSE all

\* Mutant of StartsReconnect: no reconnection task is ever created.
StartsReconnect_Never == FALSE

\* _start_reconnect: a task is created when none is held or the held one is
\* done.
StartsReconnect == reconnect_task \in {"none", "done"}

ReturnPublish(value, how, m) ==
    [op |-> "publish", task |-> NoTask, value |-> value, log |-> <<how, m>>]

\* publish, lines 139-162, called k times in a row with the messages
\* published + 1 .. published + k.  A connected client awaits the transport,
\* so only single calls are steps there.
publish(k) ==
    /\ publish_ops < MaxPublishOps
    /\ publish_ops' = publish_ops + 1
    /\ published' = published + k
    /\ outage_only' = (outage_only /\ ~ever_connected)
    /\ IF ~connected
       THEN /\ local_queue' = AddToLocalQueue(local_queue, published + 1, k)
            /\ reconnect_task' = IF StartsReconnect THEN "running" ELSE reconnect_task
            /\ rpc' = IF StartsReconnect THEN "start" ELSE rpc
            /\ last_return' = ReturnPublish("returned", "buffered", published + k)
            /\ UNCHANGED <<connected, received>>
       ELSE /\ k = 1
            /\ IF server_up
               THEN /\ received' = Deliver(received, published + 1)
                    /\ last_return' = ReturnPublish("returned", "sent", published + 1)
                    /\ UNCHANGED <<connected, local_queue, reconnect_task, rpc>>
               ELSE /\ connected' = FALSE
                    /\ local_queue' = AddToLocalQueue(local_queue, published + 1, 1)
                    /\ reconnect_task' = IF StartsReconnect THEN "running" ELSE reconnect_task
                    /\ rpc' = IF StartsReconnect THEN "start" ELSE rpc
                    /\ last_return' = ReturnPublish("returned", "failed", published + 1)
                    /\ UNCHANGED received
    /\ UNCHANGED <<server_up, toggles, backoff, flushing, dpc, ever_connected>>
    /\ UNCHANGED <<disconnects, sleeps>>
    /\ UNCHANGED offRedisClient

\* connect, lines 114-125.
connect ==
    /\ IF server_up
       THEN /\ connected' = TRUE
            /\ ever_connected' = TRUE
            /\ last_return' = NoReturn
       ELSE /\ last_return' = NoReturn
            /\ UNCHANGED <<connected, ever_connected>>
    /\ UNCHANGED <<server_up, toggles, local_queue, reconnect_task, rpc, backoff, flushing,
                   dpc, received, published, publish_ops, outage_only>>
    /\ UNCHANGED <<disconnects, sleeps>>
    /\ UNCHANGED offRedisClient

\* Mutant of SetGetConnected: a failed server call leaves _connected alone.
SetGetConnected_Kept(conn, up) == conn

\* set, lines 216 / get, lines 244: _connected after the call.
SetGetConnected(conn, up) == conn /\ up

\* set, lines 207-217 / get, lines 230-245: how the call ends.
SetGetOutcome(conn, up) ==
    IF ~conn THEN "raised_not_connected"
    ELSE IF up THEN "returned"
    ELSE "raised_server"

\* What a set or get call hands back, with the server call it made, if any.
ReturnSetGet(value, called) ==
    [op |-> "set_get", task |-> NoTask, value |-> value,
     log |-> IF called THEN <<"server">> ELSE <<>>]

\* set, lines 196-217, and get, lines 219-245, as far as the connection goes.
redis_set_get ==
    /\ connected' = SetGetConnected(connected, server_up)
    /\ last_return' = ReturnSetGet(SetGetOutcome(connected, server_up), connected)
    /\ UNCHANGED <<server_up, toggles, local_queue, reconnect_task, rpc, backoff, flushing,
                   dpc, received, published, publish_ops, ever_connected,
                   outage_only>>
    /\ UNCHANGED <<disconnects, sleeps>>
    /\ UNCHANGED offRedisClient

\* _reconnect, lines 274-280: the task created by _start_reconnect first
\* runs, up to its first ping.
reconnect_start ==
    /\ reconnect_task = "running"
    /\ rpc = "start"
    /\ IF connected
       THEN /\ reconnect_task' = "done"
            /\ rpc' = "none"
            /\ UNCHANGED backoff
       ELSE /\ rpc' = "ping"
            /\ backoff' = INITIAL_BACKOFF
            /\ UNCHANGED reconnect_task
    /\ sleeps' = 0
    /\ last_return' = NoReturn
    /\ UNCHANGED <<server_up, toggles, connected, local_queue, flushing, dpc, disconnects, received,
                   published, publish_ops, ever_connected, outage_only>>
    /\ UNCHANGED disconnects
    /\ UNCHANGED offRedisClient

\* _reconnect, lines 279-286, and _flush_local_queue, lines 293-296: the ping
\* answers or fails; on an answer the flush starts, up to its first publish.
reconnect_ping ==
    /\ reconnect_task = "running"
    /\ rpc = "ping"
    /\ server_up \/ sleeps < MaxSleeps
    /\ sleeps' = IF server_up THEN 0 ELSE sleeps + 1
    /\ IF server_up
       THEN /\ connected' = TRUE
            /\ ever_connected' = TRUE
            /\ IF local_queue = <<>>
               THEN /\ reconnect_task' = "done"
                    /\ rpc' = "none"
                    /\ backoff' = 0
                    /\ UNCHANGED <<local_queue, flushing>>
               ELSE /\ flushing' = Head(local_queue)
                    /\ local_queue' = Tail(local_queue)
                    /\ rpc' = "publish"
                    /\ backoff' = 0
                    /\ UNCHANGED reconnect_task
       ELSE /\ rpc' = "sleep"
            /\ UNCHANGED <<connected, ever_connected, local_queue, flushing,
                           reconnect_task, backoff>>
    /\ last_return' = NoReturn
    /\ UNCHANGED <<server_up, toggles, dpc, received, published, publish_ops, outage_only>>
    /\ UNCHANGED disconnects
    /\ UNCHANGED offRedisClient

\* _reconnect, lines 288-289 and 276: the sleep ends, the backoff grows and
\* the loop condition is read again.
reconnect_sleep ==
    /\ reconnect_task = "running"
    /\ rpc = "sleep"
    /\ IF connected
       THEN /\ reconnect_task' = "done"
            /\ rpc' = "none"
            /\ backoff' = 0
       ELSE /\ rpc' = "ping"
            /\ backoff' = BackoffAfter(backoff)
            /\ UNCHANGED reconnect_task
    /\ sleeps' = IF connected THEN 0 ELSE sleeps
    /\ last_return' = NoReturn
    /\ UNCHANGED <<server_up, toggles, connected, local_queue, flushing, dpc, disconnects, received,
                   published, publish_ops, ever_connected, outage_only>>
    /\ UNCHANGED disconnects
    /\ UNCHANGED offRedisClient

\* _flush_local_queue, lines 293-305, and _reconnect, line 285: the publish
\* of the popped message answers or fails; the loop goes on to the next
\* message, or the task ends.
reconnect_flush ==
    /\ reconnect_task = "running"
    /\ rpc = "publish"
    /\ UNCHANGED sleeps
    /\ IF server_up
       THEN /\ received' = Deliver(received, flushing)
            /\ IF local_queue = <<>>
               THEN /\ reconnect_task' = "done"
                    /\ rpc' = "none"
                    /\ backoff' = 0
                    /\ flushing' = 0
                    /\ UNCHANGED local_queue
               ELSE /\ flushing' = Head(local_queue)
                    /\ local_queue' = Tail(local_queue)
                    /\ UNCHANGED <<reconnect_task, rpc, backoff>>
            /\ UNCHANGED connected
       ELSE /\ local_queue' = DequeAppendLeft(local_queue, flushing)
            /\ connected' = FALSE
            /\ reconnect_task' = "done"
            /\ rpc' = "none"
            /\ backoff' = 0
            /\ flushing' = 0
            /\ UNCHANGED received
    /\ last_return' = NoReturn
    /\ UNCHANGED <<server_up, toggles, dpc, published, publish_ops, ever_connected,
                   outage_only>>
    /\ UNCHANGED disconnects
    /\ UNCHANGED offRedisClient

\* disconnect, lines 129-135: a held task is cancelled and awaited; with no
\* running task the call goes on to close the connection.
disconnect_cancel ==
    /\ dpc = "idle"
    /\ disconnects < MaxDisconnects
    /\ disconnects' = disconnects + 1
    /\ IF reconnect_task = "running"
       THEN /\ rpc' = "cancelled"
            /\ dpc' = "await_task"
            /\ UNCHANGED reconnect_task
       ELSE /\ reconnect_task' = "none"
            /\ dpc' = "closing"
            /\ UNCHANGED rpc
    /\ last_return' = NoReturn
    /\ UNCHANGED <<server_up, toggles, connected, local_queue, backoff, flushing, received,
                   published, publish_ops, ever_connected, outage_only>>
    /\ UNCHANGED sleeps
    /\ UNCHANGED offRedisClient

\* disconnect, lines 131-135: the cancelled task has ended (a publish it had
\* in flight may or may not have reached the server), the handle is dropped
\* and the connection is being closed.
disconnect_task_ended ==
    /\ dpc = "await_task"
    /\ rpc = "cancelled"
    /\ reconnect_task' = "none"
    /\ rpc' = "none"
    /\ backoff' = 0
    /\ sleeps' = 0
    /\ flushing' = 0
    /\ \/ UNCHANGED received
       \/ /\ flushing # 0
          /\ server_up
          /\ received' = Deliver(received, flushing)
    /\ dpc' = "closing"
    /\ last_return' = NoReturn
    /\ UNCHANGED <<server_up, toggles, connected, local_queue, published, publish_ops,
                   ever_connected, outage_only>>
    /\ UNCHANGED disconnects
    /\ UNCHANGED offRedisClient

\* disconnect, lines 135-137: the connection is closed.
disconnect_closed ==
    /\ dpc = "closing"
    /\ connected' = FALSE
    /\ dpc' = "idle"
    /\ last_return' = NoReturn
    /\ UNCHANGED <<server_up, toggles, local_queue, reconnect_task, rpc, backoff, flushing,
                   received, published, publish_ops, ever_connected, outage_only>>
    /\ UNCHANGED <<disconnects, sleeps>>
    /\ UNCHANGED offRedisClient

\* The environment: the server becomes unreachable, or reachable again.
server_toggle ==
    /\ toggles < MaxToggles
    /\ toggles' = toggles + 1
    /\ server_up' = ~server_up
    /\ last_return' = NoReturn
    /\ UNCHANGED <<connected, local_queue, reconnect_task, rpc, backoff, flushing,
                   dpc, received, published, publish_ops, ever_connected,
                   outage_only>>
    /\ UNCHANGED <<disconnects, sleeps>>
    /\ UNCHANGED offRedisClient

InitRedis ==
    /\ InitController
    /\ InitStore
    /\ InitTaskManager
    /\ InitQuestionHandler
    /\ InitRedisClient
    /\ InitSandboxUnused
    /\ InitRestUnused
    /\ max_concurrent = MaxCapacity
    /\ idempotency_key = OwnKey
    /\ faults = FALSE
    /\ has_controller = TRUE
    /\ serial_submit = TRUE

NextRedis ==
    \/ \E k \in PublishRuns : publish(k)
    \/ connect
    \/ reconnect_start
    \/ reconnect_ping
    \/ reconnect_sleep
    \/ reconnect_flush
    \/ server_toggle

\* The publish path of the client, with connect, against a server that comes
\* and goes.
SpecRedis == InitRedis /\ [][NextRedis]_vars

NextRedisAll ==
    \/ NextRedis
    \/ redis_set_get
    \/ disconnect_cancel
    \/ disconnect_task_ended
    \/ disconnect_closed

\* The same with set, get and disconnect.
SpecRedisAll == InitRedis /\ [][NextRedisAll]_vars

NextDisconnect ==
    \/ publish(1)
    \/ connect
    \/ reconnect_start
    \/ reconnect_ping
    \/ reconnect_sleep
    \/ reconnect_flush
    \/ server_toggle
    \/ disconnect_cancel
    \/ disconnect_task_ended
    \/ disconnect_closed

\* Single publish calls, the reconnection task and disconnect.
SpecDisconnect == InitRedis /\ [][NextDisconnect]_vars

NextReconnect ==
    \/ publish(1)
    \/ reconnect_start
    \/ reconnect_ping
    \/ reconnect_sleep
    \/ reconnect_flush
    \/ server_toggle

\* Single publishes and the reconnection task, against a server that comes
\* and goes.
SpecReconnect == InitRedis /\ [][NextReconnect]_vars

NextSetGet ==
    \/ publish(1)
    \/ connect
    \/ redis_set_get
    \/ reconnect_start
    \/ reconnect_ping
    \/ reconnect_sleep
    \/ reconnect_flush
    \/ server_toggle

\* set and get beside single publishes, connect and the reconnection task.
SpecSetGet == InitRedis /\ [][NextSetGet]_vars

\* ---------------------------------------- AzureSandboxManagerImpl -------

\* What the platform can answer to begin_create_or_update and
\* poller.result(): an exception, or a container group in one of its
\* provisioning states.
ProvisioningStates == {"Succeeded", "Failed", "Creating", "Pending"}

CreateOutcomes == {"api_error"} \cup ProvisioningStates

\* create, lines 380-385: the status recorded for a provisioning state.
StatusOf(provisioning_state) ==
    IF provisioning_state = "Failed" THEN "failed"
    ELSE IF provisioning_state \in {"Creating", "Pending"} THEN "creating"
    ELSE "running"

\* Mutant of CreatedMap: the entry is written before the platform answers.
CreatedMap_Eager(m, t, outcome) ==
    [m EXCEPT ![t] = IF outcome \in ProvisioningStates THEN StatusOf(outcome) ELSE "creating"]

\* create, lines 377-415: _sandboxes after the call.
CreatedMap(m, t, outcome) ==
    IF outcome \in ProvisioningStates
    THEN [m EXCEPT ![t] = StatusOf(outcome)]
    ELSE m

\* Mutant of DestroyedMap: the entry is kept when the delete fails.
DestroyedMap_IfDeleted(m, t, deleted) ==
    IF deleted THEN [m EXCEPT ![t] = NoSandbox] ELSE m

\* destroy, lines 442-443: _sandboxes after the call for a known task id.
DestroyedMap(m, t, deleted) == [m EXCEPT ![t] = NoSandbox]

\* get_status, lines 456-461.
SandboxStatusOf(m, t) == IF m[t] = NoSandbox THEN "terminated" ELSE m[t]

\* What a sandbox manager call hands back: a value or the exception raised,
\* with what the exception carries (create) or the deletes issued (destroy).
ReturnSandbox(op, t, value, log) ==
    [op |-> op, task |-> t, value |-> value, log |-> log]

\* create, lines 354-415, with _get_client and _create_container_group,
\* lines 182-189 and 241-323. The platform calls block, so the call runs
\* without suspending. Building the client can fail while there is none; a
\* failed platform call may or may not have left a container group behind.
sandbox_create(t) ==
    LET name == generate_container_group_name(t) IN
    /\ \/ /\ ~aci_client
          /\ last_return' = ReturnSandbox("create", t, "SandboxCreationError",
                                          <<t, "client_error">>)
          /\ UNCHANGED <<sandboxes, aci_client, groups>>
       \/ \E outcome \in CreateOutcomes :
              /\ aci_client' = TRUE
              /\ sandboxes' = CreatedMap(sandboxes, t, outcome)
              /\ IF outcome \in ProvisioningStates
                 THEN /\ groups' = groups \cup {name}
                      /\ last_return' = ReturnSandbox("create", t, StatusOf(outcome),
                                                      <<name>>)
                 ELSE /\ groups' \in {groups, groups \cup {name}}
                      /\ last_return' = ReturnSandbox("create", t, "SandboxCreationError",
                                                      <<t, outcome>>)
    /\ UNCHANGED id_prefix
    /\ UNCHANGED offSandboxManager

\* destroy, lines 417-447, with _delete_container_group, lines 325-352:
\* _get_client is called outside the try, begin_delete and poller.result()
\* inside it; a failed delete may or may not have removed the group.
sandbox_destroy(t) ==
    LET name == generate_container_group_name(t) IN
    /\ IF sandboxes[t] = NoSandbox
       THEN /\ last_return' = ReturnSandbox("destroy", t, "returned", <<>>)
            /\ UNCHANGED <<sandboxes, aci_client, groups>>
       ELSE \/ /\ ~aci_client
               /\ last_return' = ReturnSandbox("destroy", t, "raised", <<>>)
               /\ UNCHANGED <<sandboxes, aci_client, groups>>
            \/ \E deleted \in BOOLEAN :
                   /\ aci_client' = TRUE
                   /\ groups' \in (IF deleted THEN {groups \ {name}}
                                   ELSE {groups, groups \ {name}})
                   /\ sandboxes' = DestroyedMap(sandboxes, t, deleted)
                   /\ last_return' = ReturnSandbox("destroy", t, "returned", <<name>>)
    /\ UNCHANGED id_prefix
    /\ UNCHANGED offSandboxManager

\* get_status, lines 447-461.
sandbox_get_status(t) ==
    /\ last_return' = ReturnSandbox("get_status", t, SandboxStatusOf(sandboxes, t), <<>>)
    /\ UNCHANGED sbVars
    /\ UNCHANGED offSandboxManager

InitSandbox ==
    /\ InitController
    /\ max_concurrent = MaxCapacity
    /\ InitStore
    /\ InitTaskManager
    /\ InitQuestionHandler
    /\ InitRedisUnused
    /\ InitSandboxManager
    /\ InitRestUnused
    /\ idempotency_key = OwnKey
    /\ faults = FALSE
    /\ has_controller = TRUE
    /\ serial_submit = TRUE

NextSandbox ==
    \E t \in Tasks :
        \/ sandbox_create(t)
        \/ sandbox_destroy(t)
        \/ sandbox_get_status(t)

\* create, destroy and get_status in any order, for any task ids.
SpecSandbox == InitSandbox /\ [][NextSandbox]_vars

\* ------------------------------- subscribe and the progress listener ----

offSubscriber ==
    <<envVars, ccVars, storeVars, tmVars, qhVars, rdVars, sbVars, prVars, extVars>>

\* STATUS_DISPLAY_MAP, progress.py lines 23-32 (the labels in English).
STATUS_DISPLAY_MAP ==
    [pending |-> "waiting...", starting |-> "starting...", cloning |-> "cloning...",
     running |-> "running...", waiting_user |-> "awaiting user...",
     completed |-> "done", failed |-> "error", cancelled |-> "cancelled"]

\* format_progress_message, progress.py lines 35-47.
format_progress_message(status, step, total) ==
    <<STATUS_DISPLAY_MAP[status], " (", step, "/", total, ")">>

\* Payloads on progress:{task_id}: well-formed ones, and bytes that are not
\* UTF-8, text that is not JSON, JSON without a key, JSON with a status that
\* is no TaskStatus.
Malformed(kind) ==
    [kind |-> kind, status |-> "none", step |-> 0, total |-> 0]

Payloads ==
    { [kind |-> "ok", status |-> st, step |-> 3, total |-> 4] :
          st \in {"running", "completed"} }
    \cup { Malformed(k) : k \in {"bad_utf8", "bad_json", "missing_key", "unknown_status"} }

\* The (channel_id, message_ts) pairs start_listening is called with.
EditTargets == { <<"C1", "ts1">>, <<"C2", "ts2">> }

\* Mutant of ProgressEdits: a payload that cannot be shown is posted as a new
\* message.
ProgressEdits_PostOnError(n, payload, target) ==
    IF payload.kind = "ok"
    THEN << [n |-> n, op |-> "update_message", channel |-> target[1], ts |-> target[2],
             text |-> format_progress_message(payload.status, payload.step,
                                              payload.total)] >>
    ELSE << [n |-> n, op |-> "send_message", channel |-> target[1], ts |-> "none",
             text |-> <<"error">>] >>

\* The callback of _create_update_callback, progress.py lines 218-231: the
\* chat calls it makes for the n-th message.
ProgressEdits(n, payload, target) ==
    IF payload.kind = "ok"
    THEN << [n |-> n, op |-> "update_message", channel |-> target[1], ts |-> target[2],
             text |-> format_progress_message(payload.status, payload.step,
                                              payload.total)] >>
    ELSE <<>>

\* The chat calls of a callback with what the chat platform answered.
ChatResults(calls, result) ==
    [i \in 1..Len(calls) |-> [call |-> calls[i], result |-> result]]

\* How a subscribe call ends, with the unsubscribe calls it made.
ReturnSubscribe(value, log) ==
    [op |-> "subscribe", task |-> NoTask, value |-> value, log |-> log]

\* subscribe, client.py lines 173-176, called by start_listening
\* (progress.py lines 177-201) with the callback that edits `target`, or by
\* another caller with a callback of its own.
subscribe_call(l, target) ==
    /\ sub_pc = "idle"
    /\ listener' = l
    /\ edit_target' = target
    /\ IF ~connected
       THEN /\ sub_pc' = "ended"
            /\ last_return' = ReturnSubscribe("raised_not_connected", <<>>)
       ELSE /\ sub_pc' = "subscribing"
            /\ last_return' = NoReturn
    /\ UNCHANGED <<sub_registered, inbox, arrived, handled, chat_log, sub_exit>>
    /\ UNCHANGED offSubscriber

\* subscribe, lines 177-179: pubsub.subscribe(channel) answers or fails;
\* the await is outside the try block.
subscribe_registered ==
    /\ sub_pc = "subscribing"
    /\ IF server_up
       THEN /\ sub_registered' = TRUE
            /\ sub_pc' = "poll"
            /\ last_return' = NoReturn
       ELSE /\ sub_pc' = "ended"
            /\ last_return' = ReturnSubscribe("raised_transport", <<>>)
            /\ UNCHANGED sub_registered
    /\ UNCHANGED <<listener, edit_target, inbox, arrived, handled, chat_log, sub_exit>>
    /\ UNCHANGED offSubscriber

\* Mutant of LeaveTry: only a cancellation runs the finally block.
LeaveTry_CancelOnly(exit) == IF exit = "cancelled" THEN "unsubscribing" ELSE "ended"

\* subscribe, lines 181-194: whatever leaves the try block, the finally
\* block is next.
LeaveTry(exit) == "unsubscribing"

\* The task running subscribe is cancelled while it is suspended. At
\* pubsub.subscribe (line 178, outside the try) the CancelledError leaves the
\* call at once, whether or not the command had reached the server; at
\* get_message it is caught at line 189 and the finally block runs.
subscribe_cancel ==
    /\ sub_pc \in {"subscribing", "poll"}
    /\ IF sub_pc = "subscribing"
       THEN /\ sub_pc' = "ended"
            /\ sub_registered' \in (IF server_up THEN BOOLEAN ELSE {FALSE})
            /\ last_return' = ReturnSubscribe("cancelled", <<>>)
            /\ UNCHANGED sub_exit
       ELSE /\ sub_pc' = LeaveTry("cancelled")
            /\ sub_exit' = "cancelled"
            /\ last_return' = NoReturn
            /\ UNCHANGED sub_registered
    /\ UNCHANGED <<listener, edit_target, inbox, arrived, handled, chat_log>>
    /\ UNCHANGED offSubscriber

\* The server delivers a message published on the channel.
message_arrive(payload) ==
    /\ sub_pc = "poll"
    /\ sub_registered
    /\ server_up
    /\ arrived < MaxMessages
    /\ arrived' = arrived + 1
    /\ inbox' = Append(inbox, [n |-> arrived + 1, payload |-> payload])
    /\ last_return' = NoReturn
    /\ UNCHANGED <<sub_pc, sub_registered, listener, edit_target, handled, chat_log, sub_exit>>
    /\ UNCHANGED offSubscriber

\* subscribe, line 183: get_message fails on a dead transport.
subscribe_poll_failed ==
    /\ sub_pc = "poll"
    /\ ~server_up
    /\ sub_pc' = LeaveTry("transport_error")
    /\ sub_exit' = "transport_error"
    /\ last_return' = NoReturn
    /\ UNCHANGED <<sub_registered, listener, edit_target, inbox, arrived, handled, chat_log>>
    /\ UNCHANGED offSubscriber

\* subscribe, lines 183-188, with the callback: get_message hands over the
\* oldest delivered message, its bytes are decoded and the callback is
\* awaited. The progress callback (progress.py lines 218-244) parses, makes
\* its chat call and catches every Exception; a callback of another caller
\* may raise. A cancellation during the callback's await passes through.
subscribe_deliver ==
    LET m == Head(inbox)
        calls == ProgressEdits(m.n, m.payload, edit_target)
    IN
    /\ sub_pc = "poll"
    /\ inbox # <<>>
    /\ inbox' = Tail(inbox)
    /\ IF m.payload.kind = "bad_utf8"
       THEN /\ sub_pc' = LeaveTry("decode_error")
            /\ sub_exit' = "decode_error"
            /\ UNCHANGED <<handled, chat_log>>
       ELSE /\ handled' = Append(handled, [n |-> m.n, kind |-> m.payload.kind])
            /\ IF listener = "progress"
               THEN /\ \E result \in {"ok", "failed"} :
                           chat_log' = chat_log \o ChatResults(calls, result)
                    /\ \/ UNCHANGED <<sub_pc, sub_exit>>
                       \/ /\ calls # <<>>
                          /\ sub_pc' = LeaveTry("cancelled")
                          /\ sub_exit' = "cancelled"
               ELSE /\ UNCHANGED chat_log
                    /\ \/ UNCHANGED <<sub_pc, sub_exit>>
                       \/ /\ sub_exit' \in {"callback_error", "cancelled"}
                          /\ sub_pc' = LeaveTry(sub_exit')
    /\ last_return' = NoReturn
    /\ UNCHANGED <<sub_registered, listener, edit_target, arrived>>
    /\ UNCHANGED offSubscriber

\* subscribe, lines 192-194: the finally block awaits
\* pubsub.unsubscribe(channel); then the exception in flight goes on to the
\* caller, or the one unsubscribe raised on a dead transport.
subscribe_unsubscribe ==
    /\ sub_pc = "unsubscribing"
    /\ sub_pc' = "ended"
    /\ sub_exit' = "none"
    /\ IF server_up
       THEN /\ sub_registered' = FALSE
            /\ last_return' = ReturnSubscribe(sub_exit, <<"unsubscribe">>)
       ELSE /\ sub_registered' \in {sub_registered, FALSE}
            /\ last_return' = ReturnSubscribe("transport_error", <<"unsubscribe">>)
    /\ inbox' = <<>>
    /\ UNCHANGED <<listener, edit_target, arrived, handled, chat_log>>
    /\ UNCHANGED offSubscriber

\* A connected or disconnected client and no subscribe call yet.
InitSubscribe ==
    /\ InitController
    /\ max_concurrent = MaxCapacity
    /\ InitStore
    /\ InitTaskManager
    /\ InitQuestionHandler
    /\ InitRedisClient
    /\ InitSandboxUnused
    /\ InitSubscriber
    /\ InitPosterUnused
    /\ InitExtUnused
    /\ idempotency_key = OwnKey
    /\ faults = FALSE
    /\ has_controller = TRUE
    /\ serial_submit = TRUE

NextListening ==
    \/ connect
    \/ server_toggle
    \/ \E target \in EditTargets : subscribe_call("progress", target)
    \/ subscribe_registered
    \/ subscribe_cancel
    \/ \E payload \in Payloads : message_arrive(payload)
    \/ subscribe_poll_failed
    \/ subscribe_deliver
    \/ subscribe_unsubscribe

\* start_listening: the progress listener on its subscription.
SpecListening == InitSubscribe /\ [][NextListening]_vars

NextSubscribe ==
    \/ connect
    \/ server_toggle
    \/ subscribe_call("other", <<"none", "none">>)
    \/ subscribe_registered
    \/ subscribe_cancel
    \/ \E payload \in Payloads : message_arrive(payload)
    \/ subscribe_poll_failed
    \/ subscribe_deliver
    \/ subscribe_unsubscribe

\* subscribe with a callback that may raise.
SpecSubscribe == InitSubscribe /\ [][NextSubscribe]_vars

\* ------------------------------------------------------ post_result ----

offPoster ==
    <<envVars, ccVars, storeVars, tmVars, qhVars, rdVars, sbVars, psVars, extVars>>

\* result_formatter.py, line 9.
SLACK_MESSAGE_LIMIT == 4000

\* Lengths of `result`, around the limit.
ResultLengths == {0, 1, SLACK_MESSAGE_LIMIT - 1, SLACK_MESSAGE_LIMIT,
                  SLACK_MESSAGE_LIMIT + 1, 2 * SLACK_MESSAGE_LIMIT}

PostInputs ==
    [length : ResultLengths, channel : {"C1", "C2"}, thread_ts : {"ts1", "ts2"},
     task_id : Tasks]

\* Mutant of PostCalls: a result of exactly the limit is uploaded.
PostCalls_Below(in) ==
    IF in.length < SLACK_MESSAGE_LIMIT
    THEN << [op |-> "send_message", channel |-> in.channel, length |-> in.length,
             filename |-> <<>>, thread_ts |-> in.thread_ts] >>
    ELSE << [op |-> "upload_file", channel |-> in.channel, length |-> in.length,
             filename |-> <<"result-", in.task_id, ".txt">>,
             thread_ts |-> in.thread_ts] >>

\* post_result, lines 41-45: the chat calls made.
PostCalls(in) ==
    IF in.length <= SLACK_MESSAGE_LIMIT
    THEN << [op |-> "send_message", channel |-> in.channel, length |-> in.length,
             filename |-> <<>>, thread_ts |-> in.thread_ts] >>
    ELSE << [op |-> "upload_file", channel |-> in.channel, length |-> in.length,
             filename |-> <<"result-", in.task_id, ".txt">>,
             thread_ts |-> in.thread_ts] >>

\* post_result, lines 22-45; the chat call answers or raises, and what it
\* raises leaves post_result.
post_result ==
    /\ post_pc = "idle"
    /\ post_pc' = "done"
    /\ post_calls' = PostCalls(post_input)
    /\ \E r \in {"returned", "raised"} :
           last_return' = [op |-> "post_result", task |-> post_input.task_id,
                           value |-> r, log |-> <<>>]
    /\ UNCHANGED post_input
    /\ UNCHANGED offPoster

\* post_result is about to be called with any of the inputs.
InitPoster ==
    /\ InitController
    /\ max_concurrent = MaxCapacity
    /\ InitStore
    /\ InitTaskManager
    /\ InitQuestionHandler
    /\ InitRedisUnused
    /\ InitSandboxUnused
    /\ InitSubscriber
    /\ post_input \in PostInputs
    /\ post_pc = "idle"
    /\ post_calls = <<>>
    /\ InitExtUnused
    /\ idempotency_key = OwnKey
    /\ faults = FALSE
    /\ has_controller = TRUE
    /\ serial_submit = TRUE

NextPoster == post_result

SpecPoster == InitPoster /\ [][NextPoster]_vars

\* ----------------------------------------------- handle_app_mention ----

offMention ==
    <<envVars, ccVars, storeVars, tmVars, qhVars, rdVars, sbVars, psVars, prVars, hpVars>>

\* Longest mention text, in whitespace-separated tokens.
MaxTokens == 2

\* A token of the text: the characters before "scheme://host/" in it, and
\* the characters after it up to the next whitespace.  A token without
\* "://" has only `pre`.
Token(pre, scheme, host, path) ==
    [pre |-> pre, scheme |-> scheme, host |-> host, path |-> path]

MentionTokens ==
    { Token("<@BOT>", "", "", ""),
      Token("", "https", "github.com", "acme/svc"),
      Token("", "https", "github.com", "acme/web"),
      Token("<", "https", "github.com", "acme/svc>"),
      Token("", "https", "github.com", ""),
      Token("", "http", "github.com", "acme/svc"),
      Token("", "https", "gitlab.com", "acme/svc") }

MentionTexts == UNION { [1..n -> MentionTokens] : n \in 0..MaxTokens }

MentionEvents ==
    [text : MentionTexts, user : {"U1"}, ts : {"ts1", "ts2"}, channel : {"C1"},
     task_manager : BOOLEAN]

\* The result None of extract_github_url.
NoUrl == Token("", "", "", "")

\* GITHUB_URL_PATTERN, line 38: "https://github.com/" and at least one
\* character that is not whitespace.
GITHUB_URL_PATTERN(tok) ==
    /\ tok.scheme = "https"
    /\ tok.host = "github.com"
    /\ tok.path # ""

\* match.group(0): the match starts at the scheme and runs to the end of
\* the token.
MatchGroup(tok) == Token("", tok.scheme, tok.host, tok.path)

\* Mutant of extract_github_url: the last match of the text.
extract_github_url_Last(text) ==
    IF \E i \in 1..Len(text) : GITHUB_URL_PATTERN(text[i])
    THEN MatchGroup(text[CHOOSE i \in 1..Len(text) :
                            /\ GITHUB_URL_PATTERN(text[i])
                            /\ \A j \in 1..Len(text) :
                                   GITHUB_URL_PATTERN(text[j]) => j <= i])
    ELSE NoUrl

\* extract_github_url, lines 48-61: pattern.search gives the leftmost match.
extract_github_url(text) ==
    IF \E i \in 1..Len(text) : GITHUB_URL_PATTERN(text[i])
    THEN MatchGroup(text[CHOOSE i \in 1..Len(text) :
                            /\ GITHUB_URL_PATTERN(text[i])
                            /\ \A j \in 1..Len(text) :
                                   GITHUB_URL_PATTERN(text[j]) => i <= j])
    ELSE NoUrl

\* The Task of a call that passes none.
NoTaskRecord ==
    [id |-> NoTask, channel_id |-> "none", thread_ts |-> "none", user_id |-> "none",
     prompt |-> <<>>, repository_url |-> NoUrl, status |-> "none",
     idempotency_key |-> NoTask]

\* create_task, lines 74-106, called without idempotency_key.
create_task(task_id, channel_id, thread_ts, user_id, prompt, repository_url) ==
    [id |-> task_id, channel_id |-> channel_id, thread_ts |-> thread_ts,
     user_id |-> user_id, prompt |-> prompt, repository_url |-> repository_url,
     status |-> "pending", idempotency_key |-> task_id]

\* A call of say(text=..., thread_ts=...).
SayCall(kind, user, task_id, thread_ts) ==
    [op |-> "say", kind |-> kind, user |-> user, task_id |-> task_id,
     thread_ts |-> thread_ts, task |-> NoTaskRecord]

\* A call of task_manager.submit_task(task).
SubmitCall(task) ==
    [op |-> "submit_task", kind |-> "none", user |-> "none", task_id |-> NoTask,
     thread_ts |-> "none", task |-> task]

ReturnMention(t, value) ==
    [op |-> "handle_app_mention", task |-> t, value |-> value,
     log |-> <<>>]

\* handle_app_mention, lines 136-175: up to the return of `say`, and to the
\* end of the handler when nothing is awaited after it.  generate_task_id
\* gives any id.
mention_reply ==
    /\ mention_pc = "idle"
    /\ LET ev == mention_event
           url == extract_github_url(ev.text)
       IN  IF url = NoUrl
           THEN /\ mention_calls' = <<SayCall("error", ev.user, NoTask, ev.ts)>>
                /\ mention_task_id' = NoTask
                /\ mention_pc' = "done"
                /\ \E r \in {"None", "raised"} :
                       last_return' = ReturnMention(NoTask, r)
           ELSE \E id \in Tasks :
                    /\ mention_task_id' = id
                    /\ mention_calls' = <<SayCall("starting", ev.user, id, ev.ts)>>
                    /\ \/ /\ mention_pc' = "done"
                          /\ last_return' = ReturnMention(id, "raised")
                       \/ /\ ~ev.task_manager
                          /\ mention_pc' = "done"
                          /\ last_return' = ReturnMention(id, "TaskResult")
                       \/ /\ ev.task_manager
                          /\ mention_pc' = "replied"
                          /\ last_return' = NoReturn
    /\ UNCHANGED mention_event
    /\ UNCHANGED offMention

\* handle_app_mention, lines 178-193: the task is built and handed to the
\* task manager, whose error leaves the handler.
mention_submit ==
    /\ mention_pc = "replied"
    /\ LET ev == mention_event
           task == create_task(mention_task_id, ev.channel, ev.ts, ev.user, ev.text,
                               extract_github_url(ev.text))
       IN  mention_calls' = Append(mention_calls, SubmitCall(task))
    /\ mention_pc' = "done"
    /\ \E r \in {"TaskResult", "raised"} :
           last_return' = ReturnMention(mention_task_id, r)
    /\ UNCHANGED <<mention_event, mention_task_id>>
    /\ UNCHANGED offMention

\* handle_app_mention is about to be called with any of the events.
InitMention ==
    /\ InitController
    /\ max_concurrent = MaxCapacity
    /\ InitStore
    /\ InitTaskManager
    /\ InitQuestionHandler
    /\ InitRedisUnused
    /\ InitSandboxUnused
    /\ InitSubscriber
    /\ InitPosterUnused
    /\ mention_event \in MentionEvents
    /\ mention_pc = "idle"
    /\ mention_task_id = NoTask
    /\ mention_calls = <<>>
    /\ InitHelperUnused
    /\ idempotency_key = OwnKey
    /\ faults = FALSE
    /\ has_controller = TRUE
    /\ serial_submit = TRUE

NextMention ==
    \/ mention_reply
    \/ mention_submit

SpecMention == InitMention /\ [][NextMention]_vars

\* ------------------------------------------------------- ask_user.py ----

offHelper ==
    <<envVars, ccVars, storeVars, tmVars, qhVars, rdVars, sbVars, psVars, prVars, mnVars>>

\* wait_for's timeout (DEFAULT_TIMEOUT_SECONDS, line 20), in ticks.
HelperTimeout == 2

\* Messages published on answer:{TASK_ID}.
AnswerTexts == {"yes", "no"}

\* Mutant of FirstMessage: the newest of the delivered messages.
FirstMessage_Newest(msgs) == msgs[Len(msgs)]

\* wait_for_answer, lines 79-85: listen() yields the delivered messages in
\* order and the first of type "message" is returned.
FirstMessage(msgs) == msgs[1]

\* The exit of the process: main, lines 111-131.
Exited(code, stdout) == [code |-> code, stdout |-> stdout]

\* The exit codes of a timeout of wait_for: AskUserTimeoutError gives 2
\* (lines 124-126); where asyncio.TimeoutError is not the builtin
\* TimeoutError, line 94 does not catch it and the interpreter exits with 1.
TimeoutExitCodes == {2, 1}

ReturnHelper(value) == [op |-> "ask_user", task |-> NoTask, value |-> value, log |-> <<>>]

\* ask_user, lines 53-70: the environment is read, the client built and
\* pubsub.subscribe(answer:{TASK_ID}) awaited.  A missing variable ends the
\* process with 1 before any call; an error of the pub/sub call leaves
\* through the finally block and is not one main catches.
helper_subscribe ==
    /\ helper_pc = "idle"
    /\ IF ~helper_env
       THEN /\ helper_pc' = "exited"
            /\ helper_exit' = Exited(1, "none")
            /\ last_return' = ReturnHelper("raised")
            /\ UNCHANGED <<helper_sub, helper_calls>>
       ELSE \/ /\ helper_calls' = Append(helper_calls, <<"subscribe", "answer">>)
               /\ helper_sub' = TRUE
               /\ helper_pc' = "publish"
               /\ last_return' = NoReturn
               /\ UNCHANGED helper_exit
            \/ /\ helper_calls' = helper_calls \o << <<"subscribe", "answer">>,
                                                      <<"unsubscribe", "answer">> >>
               /\ helper_pc' = "exited"
               /\ helper_exit' = Exited(1, "none")
               /\ last_return' = ReturnHelper("raised")
               /\ UNCHANGED helper_sub
    /\ UNCHANGED <<helper_env, helper_inbox, helper_clock, answers_sent>>
    /\ UNCHANGED offHelper

\* ask_user, lines 74-77: client.publish(question:{TASK_ID}, question).
helper_publish ==
    /\ helper_pc = "publish"
    /\ \/ /\ helper_calls' = Append(helper_calls, <<"publish", "question">>)
          /\ helper_pc' = "wait"
          /\ last_return' = NoReturn
          /\ UNCHANGED <<helper_sub, helper_exit>>
       \/ /\ helper_calls' = helper_calls \o << <<"publish", "question">>,
                                                 <<"unsubscribe", "answer">> >>
          /\ helper_sub' = FALSE
          /\ helper_pc' = "exited"
          /\ helper_exit' = Exited(1, "none")
          /\ last_return' = ReturnHelper("raised")
    /\ UNCHANGED <<helper_env, helper_inbox, helper_clock, answers_sent>>
    /\ UNCHANGED offHelper

\* Anyone publishes a message on answer:{TASK_ID}; the server delivers it to
\* the subscriptions it holds.
answer_published(m) ==
    /\ answers_sent < MaxMessages
    /\ answers_sent' = answers_sent + 1
    /\ helper_inbox' = IF helper_sub THEN Append(helper_inbox, m) ELSE helper_inbox
    /\ last_return' = NoReturn
    /\ UNCHANGED <<helper_env, helper_pc, helper_sub, helper_calls, helper_clock,
                   helper_exit>>
    /\ UNCHANGED offHelper

\* Time passes while wait_for waits.
helper_tick ==
    /\ helper_pc = "wait"
    /\ helper_clock < HelperTimeout
    /\ helper_clock' = helper_clock + 1
    /\ last_return' = NoReturn
    /\ UNCHANGED <<helper_env, helper_pc, helper_sub, helper_calls, helper_inbox,
                   answers_sent, helper_exit>>
    /\ UNCHANGED offHelper

\* ask_user, lines 79-93 and 101-105, and main, lines 119-122: a message was
\* delivered; it is returned, the finally block unsubscribes and closes, and
\* main prints it.
helper_receive ==
    /\ helper_pc = "wait"
    /\ helper_inbox # <<>>
    /\ helper_pc' = "exited"
    /\ helper_calls' = Append(helper_calls, <<"unsubscribe", "answer">>)
    /\ helper_sub' = FALSE
    /\ helper_exit' = Exited(0, FirstMessage(helper_inbox))
    /\ last_return' = ReturnHelper(FirstMessage(helper_inbox))
    /\ UNCHANGED <<helper_env, helper_inbox, helper_clock, answers_sent>>
    /\ UNCHANGED offHelper

\* ask_user, lines 87-105, and main, lines 123-126: the timeout of wait_for
\* has passed before a message was handed over.
helper_timeout ==
    /\ helper_pc = "wait"
    /\ helper_clock = HelperTimeout
    /\ helper_inbox = <<>>
    /\ helper_pc' = "exited"
    /\ helper_calls' = Append(helper_calls, <<"unsubscribe", "answer">>)
    /\ helper_sub' = FALSE
    /\ \E code \in TimeoutExitCodes : helper_exit' = Exited(code, "none")
    /\ last_return' = ReturnHelper("timeout")
    /\ UNCHANGED <<helper_env, helper_inbox, helper_clock, answers_sent>>
    /\ UNCHANGED offHelper

\* The process of ask_user.py is about to start, with or without its
\* environment variables.
InitAskUser ==
    /\ InitController
    /\ max_concurrent = MaxCapacity
    /\ InitStore
    /\ InitTaskManager
    /\ InitQuestionHandler
    /\ InitRedisUnused
    /\ InitSandboxUnused
    /\ InitSubscriber
    /\ InitPosterUnused
    /\ InitMentionUnused
    /\ helper_env \in BOOLEAN
    /\ InitHelper
    /\ idempotency_key = OwnKey
    /\ faults = FALSE
    /\ has_controller = TRUE
    /\ serial_submit = TRUE

NextAskUser ==
    \/ helper_subscribe
    \/ helper_publish
    \/ \E m \in AnswerTexts : answer_published(m)
    \/ helper_tick
    \/ helper_receive
    \/ helper_timeout

SpecAskUser == InitAskUser /\ [][NextAskUser]_vars

\* ============================================================ claims ====

IsPrefix(s, t) == Len(s) <= Len(t) /\ \A i \in 1..Len(s) : s[i] = t[i]

\* C1: in every reachable state of the controller, under any interleaving
\* of acquire, release and enqueue, 0 <= running_count <= max_concurrent.
C1_ConcurrencyCeiling ==
    /\ 0 <= running_count
    /\ running_count <= max_concurrent

\* C1 witness: the controller is full, a release has handed a queued task
\* its slot and another task still waits.
C1_Witness ==
    /\ running_count = max_concurrent
    /\ handed_out # <<>>
    /\ queue # <<>>

\* C2: when submit calls are made one after another, every call returns the
\* id of the first task submitted with its idempotency key, and the only
\* task:{id} record written for a key is that first task's.
C2_IdempotentSubmit ==
    serial_submit =>
        /\ last_return.op = "submit" =>
               last_return.value = first_submitted[idempotency_key[last_return.task]]
        /\ \A t \in Tasks :
               store_task[t] # Absent => first_submitted[idempotency_key[t]] = t
        /\ \A t \in Tasks :
               (spc[t] = "done" /\ first_submitted[idempotency_key[t]] = t) =>
                   store_task[t] # Absent

\* C2 witness: the third call with the same key has just returned the first
\* task's id, and only the first task has a record.
C2_Witness ==
    /\ serial_submit
    /\ last_return = Return("submit", "t3", "t1")
    /\ idempotency_key["t3"] = idempotency_key["t1"]
    /\ store_task["t1"] # Absent
    /\ store_task["t2"] = Absent
    /\ store_task["t3"] = Absent

\* C4: FIFO fairness: the tasks handed out by successive releases are, in
\* order, the tasks enqueued first: no priority and no skipping.
C4_FifoFairness == IsPrefix(handed_out, enqueued)

\* C4 witness: two different queued tasks have been handed out.
C4_Witness ==
    /\ Len(handed_out) >= 2
    /\ handed_out[1] # handed_out[2]

\* C3: once the persisted status of a task is completed, failed or cancelled,
\* no step of any operation changes it, and every cancel call that returns
\* for such a task returns false.
C3_TerminalAbsorption ==
    [][\A t \in Tasks :
           store_task[t] \in TERMINAL_STATES =>
               /\ store_task'[t] = store_task[t]
               /\ (last_return'.op = "cancel" /\ last_return'.task = t)
                      => last_return'.value = "false"]_vars

\* C7: has_pending_question(t) is true only while a handle_question call for
\* t is in progress; it is false otherwise, also after the call has ended by
\* an exception.
C7_PendingOnlyInProgress ==
    \A t \in Tasks :
        pending_questions[t] # NoQuestion => qpc[t] \in InHandleQuestion

\* C8: for each outstanding question at most one submit_answer call returns
\* true, the one made while the future is registered and unfulfilled; a call
\* made with no future registered or with the future already done returns
\* false and changes no state.
C8_SingleAcceptance ==
    /\ [](\A t \in Tasks : accepted[t] <= 1)
    /\ [][\A t \in Tasks :
              (last_return'.op = "submit_answer" /\ last_return'.task = t) =>
                  IF answer_futures[t] = "pending"
                  THEN /\ last_return'.value = "true"
                       /\ answer_futures'[t] \in Answers
                  ELSE /\ last_return'.value = "false"
                       /\ UNCHANGED <<ccVars, envVars, storeVars, tmVars, qhVars>>]_vars

C8_Witness ==
    /\ last_return = Return("submit_answer", "t1", "false")
    /\ answer_futures["t1"] \in Answers
    /\ accepted["t1"] = 1

\* C9: a question callback that found its task running and whose wait timed
\* out has, in this order, persisted waiting_user, posted the question,
\* persisted cancelled and posted the timeout notice; it has published no
\* answer and persisted no running status; on its return the persisted
\* status is cancelled and neither map holds the task.
C9_HitlTimeout ==
    \A t \in Tasks :
        (/\ last_return.op = "on_question"
         /\ last_return.task = t
         /\ last_return.value = "no_answer"
         /\ last_return.log[1] = <<"get", "running">>) =>
            /\ \E q \in Questions :
                   last_return.log =
                       << <<"get", "running">>, <<"question", q>>,
                          <<"set", "waiting_user">>, <<"post", q>>,
                          <<"set", "cancelled">>, <<"post", "timeout">> >>
            /\ store_task[t] = "cancelled"
            /\ pending_questions[t] = NoQuestion
            /\ answer_futures[t] = "none"

C9_Witness ==
    /\ last_return.op = "on_question"
    /\ last_return.task = "t1"
    /\ last_return.value = "no_answer"
    /\ last_return.log[1] = <<"get", "running">>

\* C10: a question callback that found its task running and whose wait ended
\* with an accepted answer has, in this order, persisted waiting_user, posted
\* the question, received the answer, published it on the answer channel and
\* persisted running; on its return the persisted status is running and
\* neither map holds the task.
C10_HitlRoundTrip ==
    \A t \in Tasks :
        (/\ last_return.op = "on_question"
         /\ last_return.task = t
         /\ last_return.value = "answered"
         /\ last_return.log[1] = <<"get", "running">>) =>
            /\ \E q \in Questions, a \in Answers :
                   last_return.log =
                       << <<"get", "running">>, <<"question", q>>,
                          <<"set", "waiting_user">>, <<"post", q>>,
                          <<"return", a>>, <<"publish", a>>,
                          <<"set", "running">> >>
            /\ store_task[t] = "running"
            /\ pending_questions[t] = NoQuestion
            /\ answer_futures[t] = "none"

C10_Witness ==
    /\ last_return.op = "on_question"
    /\ last_return.task = "t2"
    /\ last_return.value = "answered"
    /\ last_return.log[1] = <<"get", "running">>

\* C5: when every publish so far was made during the outage, before the
\* client first reconnected, and the client is connected again with no
\* reconnection task at work, the server has received the last min(N, 100)
\* of the N messages, each once and in publish order, and none of the
\* oldest N - 100.
C5_PublishBuffering ==
    (/\ published > 0
     /\ outage_only
     /\ connected
     /\ reconnect_task # "running") =>
        LET n == Min(published, LOCAL_QUEUE_MAX_SIZE)
        IN  received = ReceivedRange(published - n + 1, published)

\* C6: publish never raises; and when it found the client disconnected or
\* its transport publish failed, then on its return the message is the
\* newest of the local buffer, the client is disconnected and a reconnection
\* task is running.
C6_PublishNeverRaises ==
    last_return.op = "publish" =>
        /\ last_return.value = "returned"
        /\ last_return.log[1] \in {"buffered", "failed"} =>
               /\ local_queue # <<>>
               /\ local_queue[Len(local_queue)] = last_return.log[2]
               /\ ~connected
               /\ reconnect_task = "running"

\* C6 witness: the transport publish of a connected client has failed while
\* an older message was still in the buffer; the call has returned with the
\* message buffered behind it.
C6_Witness ==
    /\ last_return.op = "publish"
    /\ last_return.log[1] = "failed"
    /\ Len(local_queue) = 2
    /\ local_queue[2] = last_return.log[2]
    /\ ~connected
    /\ reconnect_task = "running"

\* C11: a new-key submit that reaches the controller while fewer than
\* max_concurrent slots are held takes a slot, is not enqueued, and returns
\* with the task persisted as starting; one that reaches it while
\* max_concurrent slots are held takes no slot, is appended to the wait
\* queue and returns with the task persisted as pending; an on_task_complete
\* that finds the queue non-empty takes its head and persists it as
\* starting; running_count never exceeds max_concurrent.
C11_Admission ==
    /\ [](running_count <= max_concurrent)
    /\ [][\A t \in Tasks :
              /\ (spc[t] = "set_task" /\ spc'[t] # "set_task") =>
                     IF running_count < max_concurrent
                     THEN /\ running_count' = running_count + 1
                          /\ queue' = queue
                          /\ spc'[t] = "set_starting"
                     ELSE /\ running_count' = running_count
                          /\ queue' = Append(queue, t)
                          /\ store_task'[t] = "pending"
                          /\ last_return' = Return("submit", t, t)
              /\ (spc[t] = "set_starting" /\ spc'[t] = "done") =>
                     /\ store_task'[t] = "starting"
                     /\ last_return' = Return("submit", t, t)
                     /\ UNCHANGED <<running_count, queue>>
              /\ (last_return'.op = "on_task_complete"
                  /\ last_return'.task = t
                  /\ last_return'.value \in Tasks) =>
                     /\ enqueued # <<>>
                     /\ last_return'.value = enqueued[Len(handed_out)]
                     /\ store_task'[last_return'.value] = "starting"]_vars

C11_Witness ==
    /\ last_return = Return("on_task_complete", "t1", "t2")
    /\ store_task["t2"] = "starting"
    /\ running_count = max_concurrent
    /\ handed_out = <<"t2">>

\* C12: a cancel call that reads no record or a terminal status returns
\* false in that step and writes nothing; one that reads a non-terminal
\* status persists cancelled and returns true; on a working store cancel
\* never raises.
C12_CancelContract ==
    [][\A t \in Tasks :
           /\ (last_return'.op = "cancel" /\ last_return'.task = t) =>
                  /\ last_return'.value \in {"true", "false"}
                  /\ last_return'.value = "false" =>
                         /\ kpc[t] = "idle"
                         /\ store_task[t] \in TERMINAL_STATES \cup {Absent}
                         /\ UNCHANGED <<storeVars, ccVars, tmVars>>
                  /\ last_return'.value = "true" =>
                         /\ kpc[t] = "set_cancelled"
                         /\ store_task'[t] = "cancelled"
           /\ (kpc[t] = "idle" /\ kpc'[t] = "set_cancelled") =>
                  /\ store_task[t] \in NonTerminal
                  /\ UNCHANGED storeVars
           /\ (kpc[t] = "idle" /\ kpc'[t] = "idle"
               /\ store_task[t] \in NonTerminal) =>
                  last_return'.op # "cancel" \/ last_return'.task # t
           /\ (kpc[t] = "set_cancelled" /\ kpc'[t] = "idle") =>
                  last_return' = Return("cancel", t, "true")]_vars

C12_Witness ==
    /\ last_return = Return("cancel", "t1", "true")
    /\ store_task["t1"] = "cancelled"
    /\ kpc["t1"] = "idle"

\* C13: once the idempotency:{key} entry holds a task id, no step of any
\* number of overlapping submit calls makes it hold a different id.
C13_IdempotencySetOnce ==
    [][\A k \in Keys :
           store_idem[k] # NoTask => store_idem'[k] = store_idem[k]]_vars

C15_BackoffSequence ==
    rpc = "sleep" =>
        /\ sleeps >= 1
        /\ backoff = (IF sleeps <= 5 THEN 2 ^ (sleeps - 1) ELSE 30)
        /\ backoff <= 30

\* C15 witness: a second reconnection run, after one that ended with a
\* successful ping, is in its seventh sleep.
C15_Witness ==
    /\ rpc = "sleep"
    /\ sleeps = 7
    /\ backoff = 30
    /\ ever_connected
    /\ toggles = 3

PermittedTransition(from, to) ==
    \/ from = Absent /\ to = "pending"
    \/ from = "pending" /\ to = "starting"
    \/ from = "starting" /\ to = "cloning"
    \/ from = "cloning" /\ to = "running"
    \/ from = "running" /\ to \in {"waiting_user", "completed"}
    \/ from = "waiting_user" /\ to = "running"
    \/ from \in NonTerminal /\ to \in {"cancelled", "failed"}

\* C17: every step that changes the persisted status of a task takes it
\* along a permitted transition; so waiting_user is entered only from
\* running and starting only from pending.
C17_PermittedTransitions ==
    [][\A t \in Tasks :
           store_task'[t] # store_task[t] =>
               PermittedTransition(store_task[t], store_task'[t])]_vars

\* C18: a set or get on a disconnected client raises without a server call
\* and changes nothing in the client; on a connected client a failing server
\* call raises to the caller and leaves the client disconnected, a successful
\* one returns; no set or get changes the local publish buffer or starts a
\* reconnection.
C18_SetGetFailFast ==
    [][last_return'.op = "set_get" =>
           /\ local_queue' = local_queue
           /\ UNCHANGED <<reconnect_task, rpc, flushing, received>>
           /\ IF ~connected
              THEN /\ last_return'.value = "raised_not_connected"
                   /\ last_return'.log = <<>>
                   /\ ~connected'
              ELSE IF server_up
              THEN /\ last_return'.value = "returned"
                   /\ connected'
              ELSE /\ last_return'.value = "raised_server"
                   /\ ~connected']_vars

\* C18 witness: with a message waiting in the local buffer, a set or get on
\* a connected client has failed at the server and left the client
\* disconnected.
C18_Witness ==
    /\ last_return = ReturnSetGet("raised_server", TRUE)
    /\ ~connected
    /\ local_queue # <<>>
    /\ reconnect_task # "running"

\* C19: every destroy call returns without raising; for a task id not in the
\* live map it issues no delete and changes nothing; for a known task id it
\* issues exactly one delete, for that task's container group, and removes
\* exactly that entry from the live map whether or not the platform deleted
\* the group; and get_status reports terminated for every task id that is
\* not in the live map.
C19_DestroyBestEffort ==
    [][\A t \in Tasks :
           /\ (last_return'.op = "destroy" /\ last_return'.task = t) =>
                  /\ last_return'.value = "returned"
                  /\ IF sandboxes[t] = NoSandbox
                     THEN /\ last_return'.log = <<>>
                          /\ UNCHANGED <<sandboxes, groups>>
                     ELSE /\ last_return'.log = <<generate_container_group_name(t)>>
                          /\ sandboxes'[t] = NoSandbox
                          /\ \A u \in Tasks \ {t} : sandboxes'[u] = sandboxes[u]
                          /\ groups \ {generate_container_group_name(t)} \subseteq groups'
           /\ (last_return'.op = "get_status" /\ last_return'.task = t
                   /\ sandboxes[t] = NoSandbox) =>
                  last_return'.value = "terminated"]_vars

\* C19 witness: a destroy of a known task id has returned after a delete
\* that failed: the container group is still on the platform and the entry
\* is gone from the live map.
C19_Witness ==
    /\ last_return = ReturnSandbox("destroy", "t1", "returned", <<"sandbox-t1">>)
    /\ sandboxes["t1"] = NoSandbox
    /\ "sandbox-t1" \in groups
    /\ sandboxes["t3"] # NoSandbox

\* C20: a create call whose client construction or platform call raises
\* ends with SandboxCreationError carrying the task id and the cause and
\* leaves the live map as it was; an entry appears in the live map, or
\* changes, only in a create call for that task id that returns a Sandbox,
\* and holds the status returned.
C20_CreateFailure ==
    [][\A t \in Tasks :
           /\ (last_return'.op = "create" /\ last_return'.task = t
                   /\ last_return'.value = "SandboxCreationError") =>
                  /\ last_return'.log \in {<<t, "client_error">>, <<t, "api_error">>}
                  /\ sandboxes' = sandboxes
           /\ (sandboxes'[t] # sandboxes[t] /\ sandboxes'[t] # NoSandbox) =>
                  /\ last_return'.op = "create"
                  /\ last_return'.task = t
                  /\ last_return'.value = sandboxes'[t]
                  /\ last_return'.value \in SandboxStatus]_vars

\* C20 witness: a create has failed with the platform's error after the
\* platform had made the container group; the task id has no entry while
\* another task's entry is untouched.
C20_Witness ==
    /\ last_return = ReturnSandbox("create", "t1", "SandboxCreationError",
                                   <<"t1", "api_error">>)
    /\ sandboxes["t1"] = NoSandbox
    /\ "sandbox-t1" \in groups
    /\ sandboxes["t3"] = "running"

\* C21: every chat call of the progress listener is an edit of the message
\* at the (channel, message_ts) given to start_listening; a message handed to
\* the callback leads to exactly one such call when its payload is well
\* formed and to none when it is not; messages are handed over in arrival
\* order; and no message handed to the callback ends the subscription,
\* whether its payload is malformed or its edit fails (only a cancellation
\* does).
C21_ProgressEdits ==
    /\ [](listener = "progress" =>
             /\ \A i \in 1..Len(chat_log) :
                    /\ chat_log[i].call.op = "update_message"
                    /\ chat_log[i].call.channel = edit_target[1]
                    /\ chat_log[i].call.ts = edit_target[2]
                    /\ \E j \in 1..Len(handled) :
                           /\ handled[j].n = chat_log[i].call.n
                           /\ handled[j].kind = "ok"
             /\ \A i, j \in 1..Len(chat_log) :
                    i < j => chat_log[i].call.n < chat_log[j].call.n
             /\ \A j \in 1..Len(handled) :
                    handled[j].kind = "ok" =>
                        \E i \in 1..Len(chat_log) : chat_log[i].call.n = handled[j].n
             /\ \A i, j \in 1..Len(handled) : i < j => handled[i].n < handled[j].n)
    /\ [][(listener = "progress" /\ handled' # handled) =>
              /\ Len(chat_log') <= Len(chat_log) + 1
              /\ sub_pc' = "poll" \/ (sub_pc' = "unsubscribing" /\ sub_exit' = "cancelled")
              /\ handled'[Len(handled')].kind # "ok" =>
                     (chat_log' = chat_log /\ sub_pc' = "poll")]_vars

\* C21 witness: three messages were handed over in order; the edit for the
\* first failed, the second was not JSON, the third was shown, and the
\* subscription still polls.
C21_Witness ==
    /\ listener = "progress"
    /\ sub_pc = "poll"
    /\ Len(handled) = 3
    /\ handled[1].kind = "ok"
    /\ handled[2].kind = "bad_json"
    /\ handled[3].kind = "ok"
    /\ Len(chat_log) = 2
    /\ chat_log[1].result = "failed"
    /\ chat_log[2].call.n = 3
    /\ chat_log[2].call.text = <<"done", " (", 3, "/", 4, ")">>

\* C22: a post_result call for a result of length L makes exactly one chat
\* call: send_message(channel, result, thread_ts) when L <= 4000, and
\* upload_file(channel, result, "result-{task_id}.txt", thread_ts) when
\* L > 4000.
C22_ResultChannel ==
    post_pc = "done" =>
        /\ Len(post_calls) = 1
        /\ post_calls[1].channel = post_input.channel
        /\ post_calls[1].thread_ts = post_input.thread_ts
        /\ post_calls[1].length = post_input.length
        /\ post_input.length <= 4000 =>
               /\ post_calls[1].op = "send_message"
               /\ post_calls[1].filename = <<>>
        /\ post_input.length > 4000 =>
               /\ post_calls[1].op = "upload_file"
               /\ post_calls[1].filename = <<"result-", post_input.task_id, ".txt">>

\* C22 witness: a result of 4001 characters for task t2 was uploaded.
C22_Witness ==
    /\ post_pc = "done"
    /\ post_input.length = 4001
    /\ post_input.task_id = "t2"
    /\ post_calls[1].op = "upload_file"
    /\ post_calls[1].filename = <<"result-", "t2", ".txt">>

\* A submit of task t was interrupted after it wrote idempotency:{key} and
\* before it wrote task:{id}.
Orphaned(t) ==
    /\ spc[t] = "done"
    /\ store_idem[idempotency_key[t]] = t
    /\ store_task[t] = Absent

\* C23: once a submit was interrupted between its two writes, the key keeps
\* pointing at its id and the id keeps having no record; get_status of the
\* id reports not found; and every submit made afterwards with the same key
\* returns that id and writes nothing and takes no slot.
C23_IntakeRecovery ==
    [][\A t \in Tasks :
           Orphaned(t) =>
               /\ Orphaned(t)'
               /\ (last_return'.op = "get_status" /\ last_return'.task = t) =>
                      last_return'.value \in {"not_found", "raised"}
               /\ \A u \in Tasks :
                      (idempotency_key[u] = idempotency_key[t] /\ spc[u] = "idle"
                          /\ spc'[u] # "idle") =>
                          /\ spc'[u] = "done"
                          /\ last_return' \in {Return("submit", u, t),
                                                Return("submit", u, "raised")}
                          /\ UNCHANGED <<storeVars, ccVars>>]_vars

\* C23 witness: the submit of t1 was interrupted between its writes, and the
\* submit of t2 with the same key has returned t1; neither has a record and
\* no slot is held.
C23_Witness ==
    /\ Orphaned("t1")
    /\ idempotency_key["t2"] = idempotency_key["t1"]
    /\ last_return = Return("submit", "t2", "t1")
    /\ store_task["t2"] = Absent
    /\ running_count = 0

\* The text holds a match of the repository URL pattern.
HasGithubUrl(text) == \E i \in 1..Len(text) : GITHUB_URL_PATTERN(text[i])

\* The first match of the repository URL pattern in the text.
FirstGithubUrl(text) ==
    LET i == CHOOSE k \in 1..Len(text) :
                 /\ GITHUB_URL_PATTERN(text[k])
                 /\ \A j \in 1..(k - 1) : ~GITHUB_URL_PATTERN(text[j])
    IN  [pre |-> "", scheme |-> text[i].scheme, host |-> text[i].host,
         path |-> text[i].path]

\* C24: once the mention handler has replied, a text without repository URL
\* got exactly one error reply in the thread and no task is ever submitted;
\* a text with one got the starting reply carrying the task id as the first
\* call, and a submit comes only after it, with a task of that id that is
\* pending, has the first matching URL and its id as idempotency key.
C24_MentionIntake ==
    mention_pc # "idle" =>
        IF ~HasGithubUrl(mention_event.text)
        THEN mention_calls = << [op |-> "say", kind |-> "error",
                                 user |-> mention_event.user, task_id |-> NoTask,
                                 thread_ts |-> mention_event.ts,
                                 task |-> NoTaskRecord] >>
        ELSE /\ Len(mention_calls) \in {1, 2}
             /\ mention_calls[1].op = "say"
             /\ mention_calls[1].kind = "starting"
             /\ mention_calls[1].task_id = mention_task_id
             /\ mention_calls[1].thread_ts = mention_event.ts
             /\ mention_task_id # NoTask
             /\ \A i \in 1..Len(mention_calls) :
                    mention_calls[i].op = "submit_task" =>
                        /\ i = 2
                        /\ mention_calls[i].task.id = mention_calls[1].task_id
                        /\ mention_calls[i].task.status = "pending"
                        /\ mention_calls[i].task.repository_url =
                               FirstGithubUrl(mention_event.text)
                        /\ mention_calls[i].task.idempotency_key =
                               mention_calls[i].task.id
             /\ (mention_pc = "done" /\ last_return.value = "TaskResult"
                    /\ mention_event.task_manager) =>
                    /\ Len(mention_calls) = 2
                    /\ mention_calls[2].op = "submit_task"

\* C24 witness: a text with two different repository URLs was submitted with
\* the first of them, after the starting reply.
C24_Witness ==
    /\ mention_pc = "done"
    /\ Len(mention_event.text) = 2
    /\ GITHUB_URL_PATTERN(mention_event.text[1])
    /\ GITHUB_URL_PATTERN(mention_event.text[2])
    /\ mention_event.text[1].path # mention_event.text[2].path
    /\ Len(mention_calls) = 2
    /\ mention_calls[1].kind = "starting"
    /\ mention_calls[2].op = "submit_task"
    /\ mention_calls[2].task.repository_url.path = mention_event.text[1].path

\* C25: a subscribe call on a disconnected client ends at once with the
\* connection fault and registers nothing; once pubsub.subscribe has
\* registered the channel the call ends only through its unsubscribe call,
\* whether it ends by cancellation, by an error of the callback or by a
\* transport error while polling, and an unsubscribe that reaches the
\* server removes the registration.
C25_SubscribeExits ==
    [][/\ (sub_pc = "idle" /\ sub_pc' # "idle" /\ ~connected) =>
              /\ sub_pc' = "ended"
              /\ last_return' = ReturnSubscribe("raised_not_connected", <<>>)
              /\ ~sub_registered'
       /\ sub_pc = "poll" => sub_pc' \in {"poll", "unsubscribing"}
       /\ (sub_pc \in {"poll", "unsubscribing"} /\ sub_pc' = "ended") =>
              /\ last_return'.op = "subscribe"
              /\ last_return'.log = <<"unsubscribe">>
              /\ last_return'.value \in {"cancelled", "callback_error",
                                         "decode_error", "transport_error"}
              /\ server_up => ~sub_registered']_vars

\* C25 witness: a registered subscription whose callback raised has ended
\* with the unsubscribe call made, after a message was handled.
C25_Witness ==
    /\ sub_pc = "ended"
    /\ last_return = ReturnSubscribe("callback_error", <<"unsubscribe">>)
    /\ handled # <<>>
    /\ ~sub_registered

\* C26: the messages of the publisher reach the server in the order publish
\* was called: while the server has received them in publish order, the
\* next message it receives was not published before the last one received.
C26_PublishOrder ==
    [][(received' # received /\ received.count > 0 /\ received.ordered) =>
           received'.last >= received.last]_vars

\* The tasks that hold a slot and have not completed: those whose submit was
\* admitted by acquire (its status write pending or done), and those a
\* release took from the queue (the status write of on_task_complete pending
\* or done), less those on_task_complete has released.
SlotHolders ==
    started \cup {t \in Tasks : spc[t] = "set_starting"}
            \cup {cnext[t] : t \in {u \in Tasks : cpc[u] = "set_starting"}}

\* C27: with on_task_complete called once for each admitted task,
\* running_count is the number of tasks that hold a slot and have not
\* completed; when none holds one and the queue is empty it is 0.
C27_RunningCountIsHolders ==
    has_controller =>
        /\ running_count = Cardinality(SlotHolders)
        /\ (SlotHolders = {} /\ queue = <<>>) => running_count = 0

\* C27 witness: three tasks were submitted, one was queued and got its slot
\* from a release, and every holder has completed.
C27_Witness ==
    /\ has_controller
    /\ \A t \in Tasks : spc[t] = "done"
    /\ handed_out # <<>>
    /\ SlotHolders = {}
    /\ queue = <<>>
    /\ running_count = 0
    /\ last_return.op = "on_task_complete"

\* The return of submit that corresponds to the return of the
\* submit_with_result step being taken: the same task id, whatever the flag.
ReturnOfStep(t, value) ==
    IF value = "raised"
    THEN [op |-> "submit_with_result", task |-> t, value |-> "raised", log |-> <<>>]
    ELSE [op |-> "submit_with_result", task |-> t, value |-> value,
          log |-> last_return'.log]

\* C28: every step of a submit_with_result call is the step submit takes in
\* the same state: the same store writes, the same controller effects, the
\* same continuation and the same returned task id; and the queued flag it
\* returns is true exactly when the step enqueued the task, false when the
\* task was admitted and when its idempotency key already existed.
C28_SubmitWithResult ==
    [][/\ \E t \in Tasks :
              \/ submit_get_returning(t, ReturnOfStep)
              \/ submit_set_idem_returning(t, ReturnOfStep)
              \/ submit_set_task_returning(t, ReturnOfStep)
              \/ submit_set_starting_returning(t, ReturnOfStep)
       /\ (last_return'.op = "submit_with_result" /\ last_return'.value # "raised") =>
              /\ Len(last_return'.log) = 1
              /\ last_return'.log[1] = (enqueued' # enqueued)
              /\ last_return'.value # last_return'.task => last_return'.log[1] = FALSE
              /\ started' # started => last_return'.log[1] = FALSE]_vars

\* C28 witness: with capacity for one task, a submit_with_result call was
\* admitted, one found its key stored, and the last one was queued and
\* returned the flag set.
C28_Witness ==
    /\ has_controller
    /\ "t1" \in started
    /\ first_submitted[idempotency_key["t2"]] = "t1"
    /\ store_task["t2"] = Absent
    /\ spc["t2"] = "done"
    /\ queue = <<"t3">>
    /\ last_return = [op |-> "submit_with_result", task |-> "t3", value |-> "t3",
                      log |-> <<TRUE>>]

\* The question has been published by the helper.
QuestionPublished ==
    \E i \in 1..Len(helper_calls) : helper_calls[i] = <<"publish", "question">>

\* C29: the helper's subscription to the answer channel is made before its
\* publish of the question; every message published on the answer channel
\* after the question, while the helper waits, is delivered to it; the
\* helper that ends normally prints the first message delivered; and it
\* ends while no message was delivered only when its timeout has passed,
\* with a non-zero exit code.
C29_AskUser ==
    /\ [](\A i \in 1..Len(helper_calls) :
              helper_calls[i] = <<"publish", "question">> =>
                  /\ i = 2
                  /\ helper_calls[1] = <<"subscribe", "answer">>)
    /\ []((helper_pc = "wait") => (helper_sub /\ QuestionPublished))
    /\ [][(answers_sent' # answers_sent /\ helper_pc = "wait") =>
              /\ Len(helper_inbox') = Len(helper_inbox) + 1
              /\ helper_pc' = "wait"]_vars
    /\ [][(helper_pc = "wait" /\ helper_pc' = "exited") =>
              IF helper_inbox = <<>>
              THEN /\ helper_clock = HelperTimeout
                   /\ helper_exit'.code # 0
                   /\ helper_exit'.stdout = "none"
                   /\ last_return' = [op |-> "ask_user", task |-> NoTask,
                                      value |-> "timeout", log |-> <<>>]
              ELSE /\ helper_exit'.code = 0
                   /\ helper_exit'.stdout = helper_inbox[1]]_vars

\* C29 witness: two different messages were published on the answer channel
\* after the question, and the helper has printed the first of them.
C29_Witness ==
    /\ helper_pc = "exited"
    /\ Len(helper_inbox) >= 2
    /\ helper_inbox[1] # helper_inbox[2]
    /\ helper_exit = [code |-> 0, stdout |-> helper_inbox[1]]
    /\ helper_calls = << <<"subscribe", "answer">>, <<"publish", "question">>,
                         <<"unsubscribe", "answer">> >>

\* The messages the client holds: those in the local buffer and the one
\* _flush_local_queue has popped and is publishing.
HeldMessages(q, f) == {q[i] : i \in 1..Len(q)} \cup (IF f # 0 THEN {f} ELSE {})

\* The messages a step drops: held or published before it, neither held nor
\* received by the server after it.
DroppedByStep ==
    (HeldMessages(local_queue, flushing) \cup ((published + 1)..published'))
        \ (HeldMessages(local_queue', flushing')
              \cup (IF received' # received THEN {received'.last} ELSE {}))

\* C30: the local buffer never holds more than 100 entries, and every entry
\* a step drops was published before every entry the buffer keeps.
C30_BufferDropsOldest ==
    /\ [](Len(local_queue) <= LOCAL_QUEUE_MAX_SIZE)
    /\ [][\A d \in DroppedByStep :
              \A i \in 1..Len(local_queue') : d < local_queue'[i]]_vars

\* The step in which the publish awaited by _flush_local_queue fails.
FlushFails == flushing # 0 /\ flushing' = 0 /\ received' = received

\* C31: when a publish of the reconnection flush fails, nothing is sent
\* again, the buffer afterwards is the failed message followed by every
\* message that was behind it, in their order, and the client is
\* disconnected.
C31_FailedFlush ==
    [][FlushFails =>
           /\ local_queue' = <<flushing>> \o local_queue
           /\ ~connected'
           /\ reconnect_task' = "done"]_vars

\* C32: when disconnect completes, no reconnection task is running and the
\* client is disconnected.  (The client holds one task handle; the model
\* keeps the one task the handle refers to.)
C32_DisconnectStopsReconnect ==
    [][(dpc = "closing" /\ dpc' = "idle") =>
           /\ reconnect_task' # "running"
           /\ ~connected']_vars

Waiting(t) == \E i \in 1..Len(queue) : queue[i] = t

\* Some on_task_complete call returns the task, recorded as starting.
ReturnedStarting(t) ==
    /\ \E c \in Tasks : last_return = Return("on_task_complete", c, t)
    /\ store_task[t] = "starting"

\* C34: every task enqueued by submit is eventually returned by some
\* on_task_complete call with status starting.
C34_QueuedEventuallyStarted ==
    \A t \in Tasks : Waiting(t) ~> ReturnedStarting(t)

\* The step in which a store failure reaches the caller of submit or of
\* on_task_complete.
StoreErrorReachesCaller ==
    /\ last_return'.value = "raised"
    /\ last_return'.op \in {"submit", "on_task_complete"}

\* C35: when a store failure reaches the caller, running_count counts no
\* slot for a task that was never reported as starting.
C35_NoSlotLeakOnFailure ==
    [][StoreErrorReachesCaller =>
           running_count' <= Cardinality(SlotHolders')]_vars

\* The task waits in the queue and cancel has persisted it as cancelled.
CancelledWaiting(t) == Waiting(t) /\ store_task[t] = "cancelled"

\* The step in which release() takes the task from the queue and keeps a
\* slot for it.
Admitted(t) ==
    /\ handed_out' # handed_out
    /\ handed_out'[Len(handed_out')] = t

\* C36: a task cancelled while it waits in the queue is never admitted.
C36_CancelledNeverAdmitted ==
    [][\A t \in Tasks : CancelledWaiting(t) => ~Admitted(t)]_vars

\* C37: whenever the client is disconnected and its buffer is non-empty, a
\* reconnection task is running.
C37_BufferedImpliesReconnecting ==
    (~connected /\ local_queue # <<>>) => reconnect_task = "running"

\* has_pending_question, lines 219-228: `task_id in self._pending_questions`.
has_pending_question(t) == pending_questions[t] # NoQuestion

\* C38: whenever has_pending_question(t) is true and no answer has yet been
\* accepted for that question, a submit_answer(t, a) call returns true.
C38_PendingAnswerAccepted ==
    [][\A t \in QHTasks :
           (/\ has_pending_question(t)
            /\ accepted[t] = 0
            /\ last_return'.op = "submit_answer"
            /\ last_return'.task = t)
           => last_return'.value = "true"]_vars

\* C39: once submit_answer has accepted an answer, the wait of
\* handle_question ends only by returning that answer to the callback, which
\* goes on to publish it; the timeout path is not taken.
C39_AcceptedAnswerReturned ==
    [][\A t \in QHTasks :
           (/\ qpc[t] = "waiting"
            /\ answer_futures[t] \in Answers
            /\ qpc'[t] # "waiting")
           => /\ qpc'[t] = "publish"
              /\ answer'[t] = answer_futures[t]]_vars

\* The task has a live sandbox: an entry in _sandboxes.
LiveSandbox(t) == sandboxes[t] # NoSandbox

====
